---- MODULE Spec2Model ----
(***************************************************************************)
(* Model of graphvent's Lockable extension (two-phase lock/unlock over a   *)
(* fan-out of requirement nodes), the router (Context.Send) and the        *)
(* per-node mailbox loop that drives it.                                   *)
(***************************************************************************)
EXTENDS Integers, Sequences, FiniteSets, TLC

\* ------------------------------------------------------------------------
\* Bounds

\* number of Lock/Unlock requests issued from outside the protocol
MaxReq == 2

\* ------------------------------------------------------------------------
\* Program constants

\* mailbox capacity given to NewNode by the lockable tests
MsgChanSize == 10
\* listener channel capacity given to NewListenerExt by TestLock
ListenerBuffer == 100

\* ------------------------------------------------------------------------
\* Nodes.  Clients are the nodes built by NewSimpleListener (a ListenerExt
\* and a LockableExt without requirements); the others are lockables.

Clients == {"c1", "c2"}
Lockables == {"p", "q", "r1", "r2"}
Nodes == Clients \cup Lockables

\* nil *NodeID
NoNode == "nil"
\* uuid.UUID{}
ZeroID == <<"", "", 0>>
\* nil *uuid.UUID
NilID == <<"nil", "nil", 0>>

\* uuid.New(): the k-th batch of signals created by `creator`, one per
\* destination, gives every signal an ID no other signal has
NewID(creator, dest, k) == <<creator, dest, k>>

\* Requirement graphs the lockables are constructed with (NewLockableExt):
\* a root with two requirements, one of them shared with a second root,
\* and a chain root -> requirement -> requirement
Topologies ==
  { [p |-> {"r1", "r2"}, q |-> {"r1"}, r1 |-> {}, r2 |-> {}, c1 |-> {}, c2 |-> {}],
    [p |-> {"q"},        q |-> {"r1"}, r1 |-> {}, r2 |-> {}, c1 |-> {}, c2 |-> {}] }

\* the lockables that external code locks and unlocks
Targets == {"p", "q", "r1"}

VARIABLES
  ext,        \* ext[n]: the LockableExt of node n
  mailbox,    \* mailbox[n]: Node.MsgChan, messages routed to n and not yet processed
  chan,       \* chan[n]: ListenerExt.Chan of node n
  epoch,      \* epoch[n]: number of signal batches node n has created
  requests,   \* the Lock/Unlock requests issued from outside, in order
  panicked,   \* TRUE once a handler has panicked (the process is gone)
  call        \* the library function external code is calling, with its arguments and results

vars == <<ext, mailbox, chan, epoch, requests, panicked, call>>

\* external code is calling nothing
NoCall == [fn |-> "none"]

\* ------------------------------------------------------------------------
\* Signals

\* a signal: its header (id, dir), the ReqID of a response (req), and the
\* fields of its variant (str: LockSignal.State, ErrorSignal.Error or
\* LinkSignal.Action; node: LinkSignal.NodeID)
NewLockSignal(id, state) ==
  [type |-> "lock", dir |-> "Direct", id |-> id, req |-> ZeroID, str |-> state, node |-> NoNode]
NewSuccessSignal(req_id) ==
  [type |-> "success", dir |-> "Direct", id |-> ZeroID, req |-> req_id, str |-> "", node |-> NoNode]
NewErrorSignal(req_id, err) ==
  [type |-> "error", dir |-> "Direct", id |-> ZeroID, req |-> req_id, str |-> err, node |-> NoNode]
NewLinkSignal(id, action, node) ==
  [type |-> "link", dir |-> "Direct", id |-> id, req |-> ZeroID, str |-> action, node |-> node]
NewBaseSignal(id, direction) ==
  [type |-> "base", dir |-> direction, id |-> id, req |-> ZeroID, str |-> "", node |-> NoNode]

\* Messages.Add: one more message for `dest`, signed by `source`
Add(msgs, source, signal, dest) == Append(msgs, [dest |-> dest, src |-> source, sig |-> signal])

\* NewLockableExt
NewLockableExt(requirements) ==
  [ State |-> "Unlocked",
    ReqID |-> NilID,
    Owner |-> NoNode,
    PendingOwner |-> NoNode,
    PendingID |-> ZeroID,
    Requirements |-> [r \in requirements |-> [State |-> "Unlocked", MsgID |-> ZeroID]] ]

\* the order in which a handler walks a set of requirements; every signal
\* of the walk goes to a different mailbox
RECURSIVE SetToSeq(_)
SetToSeq(S) ==
  IF S = {} THEN <<>>
  ELSE LET x == CHOOSE y \in S : TRUE IN <<x>> \o SetToSeq(S \ {x})

Result(e, msgs, changes, panic) ==
  [ext |-> e, msgs |-> msgs, changes |-> changes, panic |-> panic]

\* fan a Lock/Unlock signal out to the requirements in `ids`, marking each
\* with the new sub-state and the ID of the signal sent to it
RECURSIVE FanOut(_, _, _, _, _, _, _)
FanOut(n, reqs, msgs, ids, state, substate, k) ==
  IF ids = <<>> THEN [reqs |-> reqs, msgs |-> msgs]
  ELSE LET id == Head(ids)
           lock_signal == NewLockSignal(NewID(n, id, k), state)
       IN FanOut(n,
                 [reqs EXCEPT ![id] = [State |-> substate, MsgID |-> lock_signal.id]],
                 Add(msgs, n, lock_signal, id),
                 Tail(ids), state, substate, k)


\* the requirements of `reqs` whose sub-state is `state`, in walk order
InState(reqs, state) == SetToSeq({r \in DOMAIN reqs : reqs[r].State = state})

\* number of entries of `reqs` whose sub-state is `state`
Count(reqs, state) == Cardinality({r \in DOMAIN reqs : reqs[r].State = state})

\* ext.Requirements[source] = info, adding the key when the map lacks it
SetReq(reqs, source, info) ==
  [r \in DOMAIN reqs \cup {source} |-> IF r = source THEN info ELSE reqs[r]]

\* info := ext.Requirements[source], the zero ReqInfo when the map lacks it
GetReq(reqs, source) ==
  IF source \in DOMAIN reqs THEN reqs[source]
  ELSE [State |-> "Unlocked", MsgID |-> ZeroID]

\* a count that is satisfied by the first requirement to be Locked
WholeLockAny(reqs) == Count(reqs, "Locked") > 0

\* a count that is satisfied by the first requirement to be Unlocked
WholeUnlockAny(reqs) == Count(reqs, "Unlocked") > 0

\* a lock request is accepted whatever the State
LockAcceptedAlways(e) == TRUE

\* a test that turns a "lock" down only when the lock is held
LockAcceptedUnlessLocked(e) == e.State # "Locked"

\* HandleSuccessSignal's count after a Success for a Lock: every
\* requirement is Locked
WholeLock(reqs) == Count(reqs, "Locked") = Cardinality(DOMAIN reqs)

\* HandleSuccessSignal's count after a Success for an Unlock: every
\* requirement is Unlocked
WholeUnlock(reqs) == Count(reqs, "Unlocked") = Cardinality(DOMAIN reqs)

\* HandleLockSignal's test before it acts on a "lock"
LockAccepted(e) == e.State = "Unlocked"

\* HandleLockSignal's test before it acts on an "unlock"
UnlockAccepted(e) == e.State = "Locked"

\* a test that lets a Link through unless the lock is held
LinkAcceptedUnlessLocked(e) == e.State # "Locked"

\* HandleLinkSignal's test before it acts on a Link
LinkAccepted(e) == e.State = "Unlocked"

\* a removal that leaves the map as it was
UnlinkNothing(reqs, id) == reqs

\* delete(ext.Requirements, signal.NodeID)
Unlink(reqs, id) == [r \in DOMAIN reqs \ {id} |-> reqs[r]]

\* a forwarding rule that leaves out the requirements that are not Locked
DownTargetsLocked(e) == {r \in DOMAIN e.Requirements : e.Requirements[r].State = "Locked"}

\* the nodes Process re-sends a Down signal to
DownTargets(e) == DOMAIN e.Requirements

\* a forwarding rule that does not look at who the owner is
UpTargetsAnyOwner(n, e) == IF e.Owner # NoNode THEN {e.Owner} ELSE {}

\* the nodes Process re-sends an Up signal to
UpTargets(n, e) == IF e.Owner # NoNode /\ e.Owner # n THEN {e.Owner} ELSE {}

\* one message carrying `signal` for each of `dests`
RECURSIVE Forward(_, _, _)
Forward(n, signal, dests) ==
  IF dests = <<>> THEN <<>>
  ELSE Add(<<>>, n, signal, Head(dests)) \o Forward(n, signal, Tail(dests))

\* LockableExt.HandleLinkSignal
HandleLinkSignal(n, e, source, signal, k) ==
  IF LinkAccepted(e)
  THEN CASE signal.str = "add" ->
              IF signal.node \in DOMAIN e.Requirements
              THEN Result(e, Add(<<>>, n, NewErrorSignal(signal.id, "already_requirement"), source),
                          <<>>, FALSE)
              ELSE Result([e EXCEPT !.Requirements =
                             SetReq(@, signal.node, [State |-> "Unlocked", MsgID |-> ZeroID])],
                          Add(<<>>, n, NewSuccessSignal(signal.id), source),
                          <<"requirement_added">>, FALSE)
         [] signal.str = "remove" ->
              IF signal.node \notin DOMAIN e.Requirements
              THEN Result(e, Add(<<>>, n, NewErrorSignal(signal.id, "can't link: not_requirement"), source),
                          <<>>, FALSE)
              ELSE Result([e EXCEPT !.Requirements = Unlink(@, signal.node)],
                          Add(<<>>, n, NewSuccessSignal(signal.id), source),
                          <<"requirement_removed">>, FALSE)
         [] OTHER ->
              Result(e, Add(<<>>, n, NewErrorSignal(signal.id, "unknown_action"), source), <<>>, FALSE)
  ELSE Result(e, Add(<<>>, n, NewErrorSignal(signal.id, "not_unlocked"), source), <<>>, FALSE)

\* LockableExt.HandleErrorSignal
HandleErrorSignal(n, e, source, signal, k) ==
  CASE signal.str = "not_unlocked" ->
         IF e.State = "Locking"
         THEN LET req_info == [GetReq(e.Requirements, source) EXCEPT !.State = "Unlocked"]
                  reqs1 == SetReq(e.Requirements, source, req_info)
                  fan == FanOut(n, reqs1, <<>>, InState(reqs1, "Locked"), "unlock", "Unlocking", k)
              IN Result([e EXCEPT !.State = "AbortingLock", !.Requirements = fan.reqs],
                        fan.msgs, <<"requirements">>, FALSE)
         ELSE Result(e, <<>>, <<"requirements">>, FALSE)
    [] signal.str = "not_locked" ->
         Result(e, <<>>, <<>>, TRUE)
    [] OTHER ->
         Result(e, <<>>, <<>>, FALSE)

\* the owner assignment left out: Owner stays what it was
OwnerKept(e) == e.Owner

\* ext.Owner = ext.PendingOwner, the assignment that completes a lock or an unlock
NewOwner(e) == e.PendingOwner

\* LockableExt.HandleSuccessSignal
HandleSuccessSignal(n, e, source, signal, k) ==
  IF source = n THEN Result(e, <<>>, <<>>, FALSE)
  ELSE IF source \notin DOMAIN e.Requirements THEN Result(e, <<>>, <<>>, FALSE)
  ELSE LET info == e.Requirements[source] IN
  IF info.MsgID # signal.req THEN Result(e, <<>>, <<>>, FALSE)
  ELSE IF info.State = "Locking" THEN
    IF e.State = "Locking" THEN
      LET reqs1 == [e.Requirements EXCEPT ![source] = [State |-> "Locked", MsgID |-> ZeroID]]
      IN IF WholeLock(reqs1)
         THEN \* WHOLE LOCK
              Result([e EXCEPT !.Requirements = reqs1, !.State = "Locked", !.Owner = NewOwner(e)],
                     Add(<<>>, n, NewSuccessSignal(e.PendingID), NewOwner(e)),
                     <<"locked">>,
                     NewOwner(e) = NoNode)
         ELSE Result([e EXCEPT !.Requirements = reqs1], <<>>, <<"partial_lock">>, FALSE)
    ELSE IF e.State = "AbortingLock" THEN
      LET lock_signal == NewLockSignal(NewID(n, source, k), "unlock")
      IN Result([e EXCEPT !.Requirements[source] = [State |-> "Unlocking", MsgID |-> lock_signal.id]],
                Add(<<>>, n, lock_signal, source), <<>>, FALSE)
    ELSE Result(e, <<>>, <<>>, FALSE)
  ELSE IF info.State = "Unlocking" THEN
    LET reqs1 == [e.Requirements EXCEPT ![source] = [State |-> "Unlocked", MsgID |-> ZeroID]]
    IN IF WholeUnlock(reqs1)
       THEN \* WHOLE UNLOCK
            LET old_state == e.State
                e1 == [e EXCEPT !.Requirements = reqs1, !.State = "Unlocked"]
            IN IF old_state = "Unlocking"
               THEN Result([e1 EXCEPT !.Owner = NewOwner(e), !.ReqID = NilID],
                           Add(<<>>, n, NewSuccessSignal(e.PendingID), e.Owner),
                           <<"unlocked">>,
                           e.Owner = NoNode)
               ELSE IF old_state = "AbortingLock"
               THEN Result([e1 EXCEPT !.PendingOwner = e.Owner],
                           Add(<<>>, n, NewErrorSignal(e.ReqID, "not_unlocked"), e.PendingOwner),
                           <<"lock_aborted">>,
                           e.ReqID = NilID \/ e.PendingOwner = NoNode)
               ELSE Result(e1, <<>>, <<>>, FALSE)
       ELSE Result([e EXCEPT !.Requirements = reqs1], <<>>, <<"partial_unlock">>, FALSE)
  ELSE Result(e, <<>>, <<>>, FALSE)

\* LockableExt.HandleLockSignal
HandleLockSignal(n, e, source, signal, k) ==
  CASE signal.str = "lock" ->
         IF LockAccepted(e)
         THEN IF Cardinality(DOMAIN e.Requirements) = 0
              THEN Result([e EXCEPT !.State = "Locked", !.PendingOwner = source, !.Owner = source],
                          Add(<<>>, n, NewSuccessSignal(signal.id), source),
                          <<"locked">>, FALSE)
              ELSE LET fan == FanOut(n, e.Requirements, <<>>, SetToSeq(DOMAIN e.Requirements),
                                     "lock", "Locking", k)
                   IN Result([e EXCEPT !.State = "Locking", !.ReqID = signal.id,
                                       !.PendingOwner = source, !.PendingID = signal.id,
                                       !.Requirements = fan.reqs],
                             fan.msgs, <<"locking">>, FALSE)
         ELSE Result(e, Add(<<>>, n, NewErrorSignal(signal.id, "not_unlocked"), source), <<>>, FALSE)
    [] signal.str = "unlock" ->
         IF UnlockAccepted(e)
         THEN IF Cardinality(DOMAIN e.Requirements) = 0
              THEN Result([e EXCEPT !.State = "Unlocked", !.PendingOwner = NoNode, !.Owner = NoNode],
                          Add(<<>>, n, NewSuccessSignal(signal.id), source),
                          <<"unlocked">>, FALSE)
              ELSE IF e.Owner = NoNode
              THEN Result(e, <<>>, <<>>, TRUE)
              ELSE IF source = e.Owner
              THEN LET fan == FanOut(n, e.Requirements, <<>>, SetToSeq(DOMAIN e.Requirements),
                                     "unlock", "Unlocking", k)
                   IN Result([e EXCEPT !.State = "Unlocking", !.ReqID = signal.id,
                                       !.PendingOwner = NoNode, !.PendingID = signal.id,
                                       !.Requirements = fan.reqs],
                             fan.msgs, <<"unlocking">>, FALSE)
              ELSE Result(e, <<>>, <<>>, FALSE)
         ELSE Result(e, Add(<<>>, n, NewErrorSignal(signal.id, "not_locked"), source), <<>>, FALSE)
    [] OTHER ->
         Result(e, <<>>, <<>>, FALSE)

\* LockableExt.Process
Process(n, e, source, signal, k) ==
  CASE signal.dir = "Up" ->
         Result(e, Forward(n, signal, SetToSeq(UpTargets(n, e))), <<>>, FALSE)
    [] signal.dir = "Down" ->
         Result(e, Forward(n, signal, SetToSeq(DownTargets(e))), <<>>, FALSE)
    [] signal.dir = "Direct" /\ signal.type = "link" -> HandleLinkSignal(n, e, source, signal, k)
    [] signal.dir = "Direct" /\ signal.type = "lock" -> HandleLockSignal(n, e, source, signal, k)
    [] signal.dir = "Direct" /\ signal.type = "error" -> HandleErrorSignal(n, e, source, signal, k)
    [] signal.dir = "Direct" /\ signal.type = "success" -> HandleSuccessSignal(n, e, source, signal, k)
    [] OTHER -> Result(e, <<>>, <<>>, FALSE)

\* ------------------------------------------------------------------------
\* Router and run loop

\* the select of Context.Send with the bounded channel dropping its oldest
\* message to make room
TrySendDropOldest(q, m) ==
  IF Len(q) < MsgChanSize THEN Append(q, m) ELSE Append(Tail(q), m)

\* the select of Context.Send with a channel that queues at the front
TrySendFront(q, m) ==
  IF Len(q) < MsgChanSize THEN <<m>> \o q ELSE q

\* the select of Context.Send: a non-blocking send on the destination's
\* MsgChan, which takes the message at its end unless it is full
TrySend(q, m) ==
  IF Len(q) < MsgChanSize THEN Append(q, m) ELSE q

\* a lookup that finds every node
GetNodeAny(mb, id) == TRUE

\* ctx.getNode: the node is in the context (no node is loaded from the
\* database here, so one that is not there is not found)
GetNode(mb, id) == id \in DOMAIN mb

\* Context.Send: enqueue each message in its destination's MsgChan, in
\* order, stopping at the first destination that is not found or whose
\* channel is full
RECURSIVE Send(_, _)
Send(mb, msgs) ==
  IF msgs = <<>> THEN mb
  ELSE LET msg == Head(msgs)
           sent == [mb EXCEPT ![msg.dest] = TrySend(@, [src |-> msg.src, sig |-> msg.sig])]
       IN IF ~GetNode(mb, msg.dest) THEN mb
          ELSE IF Len(mb[msg.dest]) < MsgChanSize THEN Send(sent, Tail(msgs)) ELSE sent

\* the error Context.Send returns: nil when every message was enqueued,
\* NodeNotFoundError at the first destination that is not found,
\* SIGNAL_OVERFLOW at the first destination whose channel is full
RECURSIVE SendError(_, _)
SendError(mb, msgs) ==
  IF msgs = <<>> THEN "nil"
  ELSE IF ~GetNode(mb, Head(msgs).dest) THEN "NodeNotFoundError"
  ELSE IF Len(mb[Head(msgs).dest]) < MsgChanSize
       THEN SendError(Send(mb, <<Head(msgs)>>), Tail(msgs))
       ELSE "SIGNAL_OVERFLOW"

\* nodes built with a ListenerExt in front of their LockableExt
Listeners == Nodes

\* ListenerExt.Process with a channel that drops its oldest signal to make
\* room for the new one
ListenerProcessDropOldest(ch, signal) ==
  IF Len(ch) < ListenerBuffer THEN Append(ch, signal) ELSE Append(Tail(ch), signal)

\* ListenerExt.Process: hand the signal to the channel unless it is full
ListenerProcess(ch, signal) ==
  IF Len(ch) < ListenerBuffer THEN Append(ch, signal) ELSE ch

\* the messages ListenerExt.Process returns: nil
ListenerMessages(ch, signal) == <<>>

\* the next batch number of a node that has just created signals
Bump(k, msgs) ==
  IF \E i \in 1..Len(msgs) : msgs[i].sig.type = "lock" THEN k + 1 ELSE k

Init ==
  /\ \E t \in Topologies : ext = [n \in Nodes |-> NewLockableExt(t[n])]
  /\ mailbox = [n \in Nodes |-> <<>>]
  /\ chan = [n \in Nodes |-> <<>>]
  /\ epoch = [n \in Nodes |-> 0]
  /\ requests = <<>>
  /\ panicked = FALSE
  /\ call = NoCall

\* external code signs a Lock or Unlock with the key of `src` and routes
\* it to `dst`: LockLockable / UnlockLockable when src = dst, a test's
\* Send from a listener node otherwise
Issue(src, dst, state) ==
  /\ ~panicked
  /\ LET signal == NewLockSignal(NewID(src, dst, epoch[src]), state)
     IN /\ mailbox' = Send(mailbox, Add(<<>>, src, signal, dst))
        /\ requests' = Append(requests, [src |-> src, dst |-> dst, state |-> state, id |-> signal.id])
  /\ epoch' = [epoch EXCEPT ![src] = @ + 1]
  /\ UNCHANGED <<ext, chan, panicked, call>>

\* a request of the environment, which issues MaxReq of them
Request(src, dst, state) ==
  /\ Len(requests) < MaxReq
  \* c1 and c2 are interchangeable: c1 is the first of the two to act
  /\ src = "c2" => \E i \in 1..Len(requests) : requests[i].src = "c1"
  /\ Issue(src, dst, state)

\* one turn of node n's run loop: take the next message, dispatch its
\* signal to the extensions in order, route what they return
Deliver(n) ==
  /\ ~panicked
  /\ mailbox[n] # <<>>
  /\ LET msg == Head(mailbox[n])
         res == Process(n, ext[n], msg.src, msg.sig, epoch[n])
         heard == IF n \in Listeners THEN ListenerMessages(chan[n], msg.sig) ELSE <<>>
         rest == [mailbox EXCEPT ![n] = Tail(@)]
     IN /\ chan' = [chan EXCEPT ![n] = IF n \in Listeners THEN ListenerProcess(@, msg.sig) ELSE @]
        /\ IF res.panic
           THEN /\ panicked' = TRUE
                /\ mailbox' = rest
                /\ UNCHANGED <<ext, epoch>>
           ELSE /\ ext' = [ext EXCEPT ![n] = res.ext]
                /\ mailbox' = Send(rest, heard \o res.msgs)
                /\ epoch' = [epoch EXCEPT ![n] = Bump(@, res.msgs)]
                /\ UNCHANGED panicked
  /\ UNCHANGED <<requests, call>>

Next ==
  \/ \E dst \in Targets : \E src \in Clients \cup {dst} : \E state \in {"lock", "unlock"} :
       Request(src, dst, state)
  \/ \E n \in Nodes : Deliver(n)

Spec == Init /\ [][Next]_vars

\* ------------------------------------------------------------------------
\* Vocabulary of the properties

\* node n has received `signal`: its run loop handed it to the listener
Got(n, signal) == \E i \in 1..Len(chan[n]) : chan[n][i] = signal

\* `signal` from `source` is routed to n and waits in its mailbox
InFlight(n, source, signal) ==
  \E i \in 1..Len(mailbox[n]) : mailbox[n][i] = [src |-> source, sig |-> signal]

\* nothing is left to process and no handler has panicked
Quiescent == ~panicked /\ \A n \in Nodes : mailbox[n] = <<>>

\* the requests issued so far are two Locks of the same lockable by two
\* distinct requesters
TwoLockers ==
  /\ Len(requests) = 2
  /\ requests[1].state = "lock" /\ requests[2].state = "lock"
  /\ requests[1].dst = requests[2].dst
  /\ requests[1].src # requests[2].src

\* C1: two distinct requesters lock the same Unlocked lockable whose
\* requirements are free: once every message is processed, one of them has
\* received Success and the other Error("not_unlocked"), and neither both.
C1_LockExclusive ==
  (TwoLockers /\ Quiescent) =>
    \E i \in {1, 2} :
      LET won == requests[i]
          lost == requests[3 - i]
      IN /\ Got(won.src, NewSuccessSignal(won.id))
         /\ ~Got(won.src, NewErrorSignal(won.id, "not_unlocked"))
         /\ Got(lost.src, NewErrorSignal(lost.id, "not_unlocked"))
         /\ ~Got(lost.src, NewSuccessSignal(lost.id))

\* the requirements of n, of its requirements, and so on, as the
\* extensions `e` record them
RECURSIVE Reach(_, _, _)
Reach(e, S, fuel) ==
  IF fuel = 0 THEN S
  ELSE Reach(e, S \cup UNION {DOMAIN e[m].Requirements : m \in S}, fuel - 1)

TransReqs(e, n) == Reach(e, DOMAIN e[n].Requirements, Cardinality(Nodes))

\* the step in which n becomes Locked, which is the step in which it
\* sends the Success that answers the Lock
AnswersLockSuccess(n) ==
  Deliver(n) /\ ext[n].State # "Locked" /\ ext'[n].State = "Locked"

\* C2: when a lockable answers a Lock with Success, at that moment every
\* transitive requirement of it is Locked, and every requirement it lists
\* itself is owned by it (a requirement of a requirement is locked by, and
\* so owned by, the requirement that lists it).
C2_AtomicOnSuccess ==
  [][\A n \in Nodes :
       AnswersLockSuccess(n) =>
         /\ \A r \in TransReqs(ext', n) : ext'[r].State = "Locked"
         /\ \A r \in DOMAIN ext'[n].Requirements : ext'[r].Owner = n]_vars

\* the signal node n is about to process, and what its LockableExt
\* returns for it
HasMsg(n) == mailbox[n] # <<>>
Msg(n) == Head(mailbox[n])
Res(n) == Process(n, ext[n], Msg(n).src, Msg(n).sig, epoch[n])

\* `signal` is among the messages a handler returned, addressed to `dest`
Sends(msgs, dest, signal) ==
  \E i \in 1..Len(msgs) : msgs[i].dest = dest /\ msgs[i].sig = signal

\* the step in which n turns a Lock down at once
RejectsLock(n) ==
  /\ HasMsg(n)
  /\ Msg(n).sig.type = "lock" /\ Msg(n).sig.str = "lock"
  /\ Deliver(n)
  /\ Sends(Res(n).msgs, Msg(n).src, NewErrorSignal(Msg(n).sig.id, "not_unlocked"))

\* the step in which n ends an aborted lock, which is the step in which
\* it sends the Error that answers the Lock
CompletesAbort(n) ==
  Deliver(n) /\ ext[n].State = "AbortingLock" /\ ext'[n].State = "Unlocked"

\* no requirement of n is Locked with n as its owner
NoneHeld(e, n) ==
  \A r \in DOMAIN e[n].Requirements : ~(e[r].State = "Locked" /\ e[r].Owner = n)

\* C3 as stated: whenever a lockable answers a Lock with Error, at that
\* moment none of its requirements is Locked and owned by it.
C3_AtomicOnError ==
  [][\A n \in Nodes : (RejectsLock(n) \/ CompletesAbort(n)) => NoneHeld(ext', n)]_vars

\* C3 amended: when a lockable answers with Error a Lock it had accepted
\* and then aborted, at that moment none of its requirements is Locked and
\* owned by it.
C3_AtomicOnAbort ==
  [][\A n \in Nodes : CompletesAbort(n) => NoneHeld(ext', n)]_vars

\* an aborted Lock of n has been answered with its Error after n took back
\* a requirement it had locked
C3_Witness ==
  \E n \in Lockables : \E i \in 1..Len(requests) :
    /\ requests[i].dst = n /\ requests[i].state = "lock"
    /\ ext[n].State = "Unlocked" /\ ext[n].ReqID = requests[i].id
    /\ \/ InFlight(requests[i].src, n, NewErrorSignal(requests[i].id, "not_unlocked"))
       \/ Got(requests[i].src, NewErrorSignal(requests[i].id, "not_unlocked"))
    /\ \E r \in DOMAIN ext[n].Requirements \ {n} : \E k \in 0..epoch[n] :
         Got(r, NewLockSignal(NewID(n, r, k), "unlock"))

\* a request issued from outside has been answered: its requester has
\* received a Success or an Error that carries its ID
Outcomes(r) ==
  {i \in 1..Len(chan[r.src]) :
     chan[r.src][i].type \in {"success", "error"} /\ chan[r.src][i].req = r.id}

\* C4: every Lock request produces exactly one outcome for its requester:
\* once every message is processed, the requester has received one
\* Success or Error carrying the ID of its Lock.
C4_OneOutcome ==
  Quiescent =>
    \A i \in 1..Len(requests) :
      requests[i].state = "lock" => Cardinality(Outcomes(requests[i])) = 1

\* the step in which a Locked n processes an Unlock whose source is not
\* its owner
ForeignUnlock(n) ==
  /\ HasMsg(n)
  /\ Msg(n).sig.type = "lock" /\ Msg(n).sig.str = "unlock"
  /\ ext[n].State = "Locked"
  /\ Msg(n).src # ext[n].Owner
  /\ Deliver(n)

\* C5: an Unlock that reaches a Locked lockable from a node that is not
\* its owner changes neither its State, nor its Owner, nor the states of
\* its requirements.
C5_ForeignUnlockIgnored ==
  [][\A n \in Nodes : ForeignUnlock(n) => ext'[n] = ext[n]]_vars

\* C6: a lock that is aborted is brought to its end: AbortingLock is left
\* for Unlocked (with the Error to the requester) once the requirements
\* that were locked are released, so no lockable rests in AbortingLock
\* when every message is processed.
C6_AbortCompletes ==
  Quiescent => \A n \in Nodes : ext[n].State # "AbortingLock"

\* the step in which n processes a Lock or Unlock and leaves its
\* extension as it was: the request is refused
Refuses(n) ==
  /\ HasMsg(n)
  /\ Msg(n).sig.type = "lock"
  /\ Deliver(n)
  /\ ext'[n] = ext[n]

\* an Error that answers the request n is about to process
IsRefusal(n, msg) ==
  /\ msg.dest = Msg(n).src
  /\ msg.sig.type = "error"
  /\ msg.sig.req = Msg(n).sig.id

\* C10: every Lock or Unlock a lockable refuses is answered with an Error
\* sent to the requester and carrying the request's ID.
C10_RefusalAnswered ==
  [][\A n \in Nodes :
       Refuses(n) => \E i \in 1..Len(Res(n).msgs) : IsRefusal(n, Res(n).msgs[i])]_vars

\* a lock or unlock transaction of the lockable is outstanding
Busy(e) == e.State \in {"Locking", "Unlocking", "AbortingLock"}

\* the step in which a busy n processes a Lock or an Unlock
ReentrantRequest(n) ==
  /\ HasMsg(n)
  /\ Msg(n).sig.type = "lock" /\ Msg(n).sig.str \in {"lock", "unlock"}
  /\ Busy(ext[n])
  /\ Deliver(n)

\* the Error HandleLockSignal owes to a request it turns down
Refusal(signal) ==
  NewErrorSignal(signal.id, IF signal.str = "lock" THEN "not_unlocked" ELSE "not_locked")

\* the step routes `signal` from `source` to n's mailbox
Routed(n, source, signal) ==
  \E i \in 1..Len(mailbox'[n]) : mailbox'[n][i] = [src |-> source, sig |-> signal]

\* C9: while a lockable is Locking, Unlocking or AbortingLock, a Lock it
\* receives is answered with Error("not_unlocked") and an Unlock with
\* Error("not_locked"), each carrying the request's ID, and its State,
\* Owner, PendingOwner and requirement states stay as they are.
C9_Reentrancy ==
  [][\A n \in Nodes :
       ReentrantRequest(n) =>
         /\ ext'[n] = ext[n]
         /\ Sends(Res(n).msgs, Msg(n).src, Refusal(Msg(n).sig))
         /\ Routed(Msg(n).src, n, Refusal(Msg(n).sig))]_vars

\* a busy lockable has turned an Unlock down and is still busy with the
\* Lock it had accepted
C9_Witness ==
  \E n \in Lockables : \E i \in 1..Len(requests) :
    /\ requests[i].dst = n /\ requests[i].state = "unlock"
    /\ ext[n].State = "Locking" /\ ext[n].ReqID # requests[i].id
    /\ InFlight(requests[i].src, n, NewErrorSignal(requests[i].id, "not_locked"))

\* ------------------------------------------------------------------------
\* TestLock: two lockables, l0 and l1, that share requirements, and the
\* test's sequence of calls

L0 == "p"
L1 == "q"

\* the leaves l0 and l1 take their requirements from
SharedPool == {"r1", "r2"}

\* each of l0 and l1 requires some of the leaves and the two share at
\* least one; TestLock gives both the same four
TestLockShapes ==
  {t \in [{L0, L1} -> (SUBSET SharedPool) \ {{}}] : t[L0] \cap t[L1] # {}}

InitTestLock ==
  /\ \E t \in TestLockShapes :
       ext = [n \in Nodes |-> NewLockableExt(IF n \in {L0, L1} THEN t[n] ELSE {})]
  /\ mailbox = [n \in Nodes |-> <<>>]
  /\ chan = [n \in Nodes |-> <<>>]
  /\ epoch = [n \in Nodes |-> 0]
  /\ requests = <<>>
  /\ panicked = FALSE
  /\ call = NoCall

\* n's lock has failed: a requirement has answered it Error("not_unlocked")
LockFailed(n) ==
  \E i \in 1..Len(chan[n]) : chan[n][i].type = "error" /\ chan[n][i].str = "not_unlocked"

\* LockLockable(ctx, l0)
TestLockL0 ==
  /\ Len(requests) = 0
  /\ Issue(L0, L0, "lock")

\* l0_listener has shown l0 locked; LockLockable(ctx, l1)
TestLockL1 ==
  /\ Len(requests) = 1
  /\ Got(L0, NewSuccessSignal(requests[1].id))
  /\ Issue(L1, L1, "lock")

\* l1's lock has failed and the wait on l1_listener is over;
\* UnlockLockable(ctx, l0)
TestUnlockL0 ==
  /\ Len(requests) = 2
  /\ Quiescent /\ LockFailed(L1)
  /\ Issue(L0, L0, "unlock")

\* l0_listener has shown l0 unlocked; LockLockable(ctx, l1) once more
TestRelockL1 ==
  /\ Len(requests) = 3
  /\ Quiescent /\ Got(L0, NewSuccessSignal(requests[3].id))
  /\ Issue(L1, L1, "lock")

NextTestLock ==
  \/ TestLockL0
  \/ TestLockL1
  \/ TestUnlockL0
  \/ TestRelockL1
  \/ \E n \in Nodes : Deliver(n)

SpecTestLock == InitTestLock /\ [][NextTestLock]_vars

\* C7: after l1's Lock has failed on a requirement l0 held and l0 has
\* unlocked, l1 is Unlocked with every requirement entry Unlocked, and a
\* new Lock of l1, once every message is processed, has made l1 and all
\* its requirements Locked and has been answered with Success.
C7_ReusableAfterFailure ==
  /\ (Len(requests) = 3 /\ Quiescent /\ Got(L0, NewSuccessSignal(requests[3].id))) =>
       /\ ext[L1].State = "Unlocked"
       /\ \A r \in DOMAIN ext[L1].Requirements : ext[L1].Requirements[r].State = "Unlocked"
  /\ (Len(requests) = 4 /\ Quiescent) =>
       /\ ext[L1].State = "Locked"
       /\ Got(L1, NewSuccessSignal(requests[4].id))
       /\ \A r \in DOMAIN ext[L1].Requirements : ext[r].State = "Locked" /\ ext[r].Owner = L1

\* ------------------------------------------------------------------------
\* Test10KLink: one root whose requirements are all leaves, locked once

\* number of requirements of the root
MaxLeaves == 3

Root == "p"

\* the nodes that serve as the root's leaves, in the order they are added
LeafOrder == <<"r1", "r2", "q", "c2">>

LeafSets == {{LeafOrder[i] : i \in 1..k} : k \in 1..MaxLeaves}

InitLeaves ==
  /\ \E reqs \in LeafSets :
       ext = [n \in Nodes |-> NewLockableExt(IF n = Root THEN reqs ELSE {})]
  /\ mailbox = [n \in Nodes |-> <<>>]
  /\ chan = [n \in Nodes |-> <<>>]
  /\ epoch = [n \in Nodes |-> 0]
  /\ requests = <<>>
  /\ panicked = FALSE
  /\ call = NoCall

\* the one Lock of the root: LockLockable(ctx, node), or a Lock a listener
\* node sends it
LockRoot(src) ==
  /\ requests = <<>>
  /\ Issue(src, Root, "lock")

NextLeaves ==
  \/ \E src \in {Root, "c1"} : LockRoot(src)
  \/ \E n \in Nodes : Deliver(n)

\* every node's run loop is a goroutine of its own that keeps taking
\* messages from its mailbox
SpecLeaves ==
  InitLeaves /\ [][NextLeaves]_vars /\ \A n \in Nodes : WF_vars(Deliver(n))

\* the Successes the root has received for the Lock it sent to r
SuccessesFrom(r) ==
  {i \in 1..Len(chan[Root]) :
     /\ chan[Root][i].type = "success"
     /\ chan[Root][i].req[1] = Root /\ chan[Root][i].req[2] = r}

\* the root's Lock is complete: each requirement is Locked, owned by the
\* root and has answered with one Success, the root records them all as
\* Locked, is Locked itself, and its requester has received the Success
RootLocked ==
  /\ Len(requests) = 1
  /\ ext[Root].State = "Locked" /\ ext[Root].Owner = requests[1].src
  /\ \A r \in DOMAIN ext[Root].Requirements :
       /\ ext[Root].Requirements[r].State = "Locked"
       /\ ext[r].State = "Locked" /\ ext[r].Owner = Root
       /\ Cardinality(SuccessesFrom(r)) = 1
  /\ Got(requests[1].src, NewSuccessSignal(requests[1].id))

C11_NeverPanics == ~panicked

\* ------------------------------------------------------------------------
\* A requirement whose policy does not grant the Lock of its dependents

\* the nodes built without a policy that grants the signals of other nodes
Denying == {"r1"}

\* the run loop of n is about to turn its next message down: requests are
\* checked against the policies of n, responses pass by default
Denied(n) ==
  /\ n \in Denying
  /\ HasMsg(n)
  /\ Msg(n).sig.type \notin {"success", "error"}
  /\ Msg(n).src # n

\* one turn of n's run loop that ends at the policy check: the signal
\* reaches no extension and the sender is answered Error("acl_denied")
Deny(n) ==
  /\ ~panicked
  /\ Denied(n)
  /\ mailbox' = Send([mailbox EXCEPT ![n] = Tail(@)],
                     Add(<<>>, n, NewErrorSignal(Msg(n).sig.id, "acl_denied"), Msg(n).src))
  /\ UNCHANGED <<ext, chan, epoch, requests, panicked, call>>

\* one turn of n's run loop that passes the policy check
Admit(n) == ~Denied(n) /\ Deliver(n)

NextDenied ==
  \/ \E dst \in Targets : \E src \in Clients \cup {dst} : \E state \in {"lock", "unlock"} :
       Request(src, dst, state)
  \/ \E n \in Nodes : Admit(n)
  \/ \E n \in Nodes : Deny(n)

SpecDenied == Init /\ [][NextDenied]_vars

\* n has received, for a Lock it fanned out, an Error whose code is not
\* "not_unlocked"
OtherErrorFor(n) ==
  \E i \in 1..Len(chan[n]) :
    /\ chan[n][i].type = "error" /\ chan[n][i].str = "acl_denied"
    /\ chan[n][i].req[1] = n

\* C12: a lockable whose fanned-out Lock was answered with an Error other
\* than "not_unlocked" aborts the lock: once every message is processed it
\* has left Locking and the requester of the lock has received an Error.
C12_OtherErrorAborts ==
  Quiescent =>
    \A n \in Lockables :
      OtherErrorFor(n) =>
        /\ ext[n].State # "Locking"
        /\ \A i \in 1..Len(requests) :
             (requests[i].dst = n /\ requests[i].id = ext[n].ReqID) =>
               \E j \in 1..Len(chan[requests[i].src]) :
                 /\ chan[requests[i].src][j].type = "error"
                 /\ chan[requests[i].src][j].req = requests[i].id

\* ------------------------------------------------------------------------
\* TestLink: a lockable built without requirements that a listener node
\* links to and unlinks from other lockables, locks, and sends Up and Down
\* signals

\* number of signals sent to the lockable from outside
MaxLinkReq == 3

\* l1 of TestLink
LinkRoot == "p"

\* the lockables l1 is linked to (l2 of TestLink)
LinkPool == {"r1", "r2"}

InitLink ==
  /\ ext = [n \in Nodes |-> NewLockableExt({})]
  /\ mailbox = [n \in Nodes |-> <<>>]
  /\ chan = [n \in Nodes |-> <<>>]
  /\ epoch = [n \in Nodes |-> 0]
  /\ requests = <<>>
  /\ panicked = FALSE
  /\ call = NoCall

\* external code signs `signal` with the key of `src` and routes it to
\* l1: msgs.Add(l1.ID, key, signal, l1.ID); ctx.Send(msgs)
Emit(src, signal) ==
  /\ ~panicked
  /\ Len(requests) < MaxLinkReq
  /\ mailbox' = Send(mailbox, Add(<<>>, src, signal, LinkRoot))
  /\ requests' = Append(requests, [src |-> src, dst |-> LinkRoot, state |-> signal.str,
                                   id |-> signal.id, node |-> signal.node, dir |-> signal.dir])
  /\ epoch' = [epoch EXCEPT ![src] = @ + 1]
  /\ UNCHANGED <<ext, chan, panicked, call>>

\* NewLinkSignal("add" | "remove", l2.ID)
EmitLink(action, node) ==
  Emit("c1", NewLinkSignal(NewID("c1", LinkRoot, epoch["c1"]), action, node))

\* NewLockSignal("lock" | "unlock")
EmitLock(state) ==
  Emit("c1", NewLockSignal(NewID("c1", LinkRoot, epoch["c1"]), state))

\* NewBaseSignal("TEST", Down | Up)
EmitBase(direction) ==
  Emit("c1", NewBaseSignal(NewID("c1", LinkRoot, epoch["c1"]), direction))

NextLink ==
  \/ \E action \in {"add", "remove"} : \E node \in LinkPool : EmitLink(action, node)
  \/ \E state \in {"lock", "unlock"} : EmitLock(state)
  \/ \E direction \in {"Up", "Down"} : EmitBase(direction)
  \/ \E n \in Nodes : Deliver(n)

SpecLink == InitLink /\ [][NextLink]_vars

\* the step in which n processes a Link
LinkStep(n) ==
  /\ HasMsg(n)
  /\ Msg(n).sig.dir = "Direct" /\ Msg(n).sig.type = "link"
  /\ Deliver(n)

C14_LinkErrors ==
  [][\A n \in Nodes :
       (LinkStep(n) /\ ext[n].State = "Unlocked") =>
         /\ (Msg(n).sig.str = "add" /\ Msg(n).sig.node \in DOMAIN ext[n].Requirements) =>
              /\ ext'[n] = ext[n]
              /\ Routed(Msg(n).src, n, NewErrorSignal(Msg(n).sig.id, "already_requirement"))
         /\ (Msg(n).sig.str = "remove" /\ Msg(n).sig.node \notin DOMAIN ext[n].Requirements) =>
              /\ ext'[n] = ext[n]
              /\ Routed(Msg(n).src, n, NewErrorSignal(Msg(n).sig.id, "not_requirement"))]_vars

\* the requests before the i-th are Links and Up/Down signals only, so
\* that l1 was Unlocked when it processed each of them
OnlyLinksBefore(i) ==
  \A j \in 1..(i - 1) : requests[j].state \notin {"lock", "unlock"}

\* the nodes that the Links before the i-th request have left linked: the
\* last Link that names them is an "add"
LinkedAt(i) ==
  {r \in LinkPool :
     \E j \in 1..(i - 1) :
       /\ requests[j].state = "add" /\ requests[j].node = r
       /\ \A k \in (j + 1)..(i - 1) : ~(requests[k].state = "remove" /\ requests[k].node = r)}

\* node r has received a Lock from l1
GotLockFrom(r) ==
  \E j \in 1..Len(chan[r]) :
    /\ chan[r][j].type = "lock" /\ chan[r][j].str = "lock"
    /\ chan[r][j].id[1] = LinkRoot

\* the i-th request is the one Lock of l1, sent after Links only and
\* followed by no Unlock
LockAfterLinks(i) ==
  /\ requests[i].state = "lock"
  /\ OnlyLinksBefore(i)
  /\ \A j \in 1..Len(requests) : requests[j].state # "unlock"

DownStep(n) ==
  /\ HasMsg(n)
  /\ Msg(n).sig.dir = "Down"
  /\ Deliver(n)

\* the messages among msgs that are addressed to dest
CopiesFor(msgs, dest) == {i \in 1..Len(msgs) : msgs[i].dest = dest}

\* the i-th request is a Down signal and l1 was Unlocked for every Link
OnlyLinksAndDown(i) ==
  /\ requests[i].dir = "Down"
  /\ \A j \in 1..Len(requests) : requests[j].state \notin {"lock", "unlock"}

\* the signal of the i-th request
BaseOf(i) == NewBaseSignal(requests[i].id, requests[i].dir)

\* C16: a lockable that processes a Down signal re-sends it, once, to each
\* node of its Requirements map and to no other node, and changes nothing;
\* so a Down signal sent to l1 reaches exactly the nodes that the Links
\* before it have left linked.
C16_DownToRequirements ==
  /\ [][\A n \in Nodes :
          DownStep(n) =>
            /\ ext'[n] = ext[n]
            /\ \A i \in 1..Len(Res(n).msgs) :
                 Res(n).msgs[i].sig = Msg(n).sig /\ Res(n).msgs[i].src = n
            /\ \A r \in Nodes :
                 Cardinality(CopiesFor(Res(n).msgs, r)) =
                   IF r \in DOMAIN ext[n].Requirements THEN 1 ELSE 0
            /\ \A r \in DOMAIN ext[n].Requirements : Routed(r, n, Msg(n).sig)]_vars
  /\ [](Quiescent =>
          \A i \in 1..Len(requests) :
            OnlyLinksAndDown(i) =>
              \A r \in LinkPool : Got(r, BaseOf(i)) <=> r \in LinkedAt(i))

\* a Down signal sent to l1 after l2 was linked has reached l1 and l2
C16_Witness ==
  \E i \in 1..Len(requests) : \E r \in LinkPool :
    /\ Quiescent
    /\ OnlyLinksAndDown(i)
    /\ r \in LinkedAt(i) /\ Got(r, BaseOf(i))
    /\ Got(LinkRoot, BaseOf(i))

\* ------------------------------------------------------------------------
\* Up signals through lockables that are locked by other nodes, by
\* themselves, or not at all

\* number of signals sent to the lockables from outside
MaxUpReq == 3

\* a chain: p requires q, q requires r1
Chain == [n \in Nodes |-> IF n = "p" THEN {"q"} ELSE IF n = "q" THEN {"r1"} ELSE {}]

\* the Locks sent from outside, as <<source, destination>>: by a listener
\* node, and by q itself (LockLockable)
LockPairs == {<<"c1", "p">>, <<"c1", "q">>, <<"q", "q">>}

\* the lockables that are sent Up signals from outside
SentUp == {"q", "r1"}

InitUp ==
  /\ ext = [n \in Nodes |-> NewLockableExt(Chain[n])]
  /\ mailbox = [n \in Nodes |-> <<>>]
  /\ chan = [n \in Nodes |-> <<>>]
  /\ epoch = [n \in Nodes |-> 0]
  /\ requests = <<>>
  /\ panicked = FALSE
  /\ call = NoCall

\* external code signs `signal` with the key of `src` and routes it to dst
EmitTo(src, dst, signal) ==
  /\ ~panicked
  /\ Len(requests) < MaxUpReq
  /\ mailbox' = Send(mailbox, Add(<<>>, src, signal, dst))
  /\ requests' = Append(requests, [src |-> src, dst |-> dst, state |-> signal.str,
                                   id |-> signal.id, node |-> signal.node, dir |-> signal.dir])
  /\ epoch' = [epoch EXCEPT ![src] = @ + 1]
  /\ UNCHANGED <<ext, chan, panicked, call>>

\* LockLockable(ctx, dst), or a Lock a listener node sends
LockFrom(src, dst) ==
  EmitTo(src, dst, NewLockSignal(NewID(src, dst, epoch[src]), "lock"))

\* NewBaseSignal("TEST", Up) sent to dst
UpTo(dst) ==
  EmitTo("c1", dst, NewBaseSignal(NewID("c1", dst, epoch["c1"]), "Up"))

NextUp ==
  \/ \E pair \in LockPairs : LockFrom(pair[1], pair[2])
  \/ \E dst \in SentUp : UpTo(dst)
  \/ \E n \in Nodes : Deliver(n)

SpecUp == InitUp /\ [][NextUp]_vars

\* the step in which n processes a signal whose Direction is Up
UpStep(n) ==
  /\ HasMsg(n)
  /\ Msg(n).sig.dir = "Up"
  /\ Deliver(n)

\* C17: a lockable that processes an Up signal re-sends it, once, to its
\* Owner when it has one that is not itself, and otherwise produces no
\* message; it sends it to no other node, so to no requirement, and
\* changes nothing.
C17_UpToOwner ==
  [][\A n \in Nodes :
       UpStep(n) =>
         /\ ext'[n] = ext[n]
         /\ \A i \in 1..Len(Res(n).msgs) :
              Res(n).msgs[i].sig = Msg(n).sig /\ Res(n).msgs[i].src = n
         /\ \A r \in Nodes :
              Cardinality(CopiesFor(Res(n).msgs, r)) =
                IF r = ext[n].Owner /\ r # n THEN 1 ELSE 0
         /\ \A r \in DOMAIN ext[n].Requirements : CopiesFor(Res(n).msgs, r) = {}
         /\ (ext[n].Owner # NoNode /\ ext[n].Owner # n) =>
              Routed(ext[n].Owner, n, Msg(n).sig)]_vars

\* an Up signal has passed a lockable owned by another node and reached
\* that owner, while a lockable that owns itself has received an Up signal
\* and kept it
C17_Witness ==
  \E i, j \in 1..Len(requests) : \E n, m \in Lockables :
    /\ requests[i].dir = "Up" /\ requests[j].dir = "Up"
    /\ ext[n].Owner \notin {NoNode, n}
    /\ Got(n, BaseOf(i)) /\ Got(ext[n].Owner, BaseOf(i))
    /\ ext[m].Owner = m
    /\ Got(m, BaseOf(j)) /\ Quiescent

\* ------------------------------------------------------------------------
\* The router under load: one sender routes batches of signals to two
\* receivers whose run loops take them out one at a time

\* signals the sender creates
MaxSent == 11
\* messages of one call of Send
MaxBatch == 2
\* messages routed to the second receiver
MaxSide == 2

Sender == "c1"
Receiver == "r1"
Side == "r2"

InitRouter ==
  /\ ext = [n \in Nodes |-> NewLockableExt({})]
  /\ mailbox = [n \in Nodes |-> <<>>]
  /\ chan = [n \in Nodes |-> <<>>]
  /\ epoch = [n \in Nodes |-> 0]
  /\ requests = <<>>
  /\ panicked = FALSE
  /\ call = NoCall

\* the destinations of one call of Send, in the order of its messages
Batches == UNION {[1..len -> {Receiver, Side}] : len \in 1..MaxBatch}

\* Messages.Add for each destination in turn: the k-th and following
\* signals of the sender
RECURSIVE Batch(_, _)
Batch(dests, k) ==
  IF dests = <<>> THEN <<>>
  ELSE <<[src |-> Sender, dest |-> Head(dests),
          sig |-> NewBaseSignal(NewID(Sender, Head(dests), k), "Direct")]>>
       \o Batch(Tail(dests), k + 1)

\* what the sender remembers of a call: its messages in program order,
\* each with the error the call returned
Called(msgs, err) ==
  [i \in 1..Len(msgs) |->
     [src |-> Sender, dst |-> msgs[i].dest, state |-> "base", id |-> msgs[i].sig.id, err |-> err]]

ToSide(reqs) == Cardinality({i \in 1..Len(reqs) : reqs[i].dst = Side})

\* the sender calls ctx.Send with one batch
SendBatch(dests) ==
  /\ ~panicked
  /\ epoch[Sender] < MaxSent
  /\ LET msgs == Batch(dests, epoch[Sender])
     IN /\ ToSide(requests) + ToSide(Called(msgs, "nil")) <= MaxSide
        /\ mailbox' = Send(mailbox, msgs)
        /\ requests' = requests \o Called(msgs, SendError(mailbox, msgs))
  /\ epoch' = [epoch EXCEPT ![Sender] = @ + Len(dests)]
  /\ UNCHANGED <<ext, chan, panicked, call>>

NextRouter ==
  \/ \E dests \in Batches : SendBatch(dests)
  \/ \E n \in {Receiver, Side} : Deliver(n)

SpecRouter == InitRouter /\ [][NextRouter]_vars

\* the mailbox of n is full
Full(n) == Len(mailbox[n]) = MsgChanSize

\* the error the last call of Send returned
LastError(reqs) == reqs[Len(reqs)].err

\* C18: a call of Send with a message for a node whose mailbox is full
\* returns the overflow error, and the messages queued in that mailbox are
\* the same, in the same order, after the call
C18_OverflowKeepsQueue ==
  [][\A dests \in Batches : SendBatch(dests) =>
       \A n \in {dests[i] : i \in 1..Len(dests)} :
         Full(n) => /\ LastError(requests') = "SIGNAL_OVERFLOW"
                    /\ mailbox'[n] = mailbox[n]]_vars

\* a call of Send has returned the overflow error for the receiver, whose
\* mailbox is still full
C18_Witness ==
  /\ requests # <<>>
  /\ LastError(requests) = "SIGNAL_OVERFLOW"
  /\ requests[Len(requests)].dst = Receiver
  /\ Full(Receiver)

\* the identifiers of the signals node n has taken out of its mailbox,
\* followed by those still queued in it, oldest first
Arrived(n) ==
  [i \in 1..(Len(chan[n]) + Len(mailbox[n])) |->
     IF i <= Len(chan[n]) THEN chan[n][i].id ELSE mailbox[n][i - Len(chan[n])].sig.id]

\* the identifiers of the messages for n of the calls of Send that
\* returned no error, in program order
RECURSIVE SentTo(_, _)
SentTo(n, reqs) ==
  IF reqs = <<>> THEN <<>>
  ELSE IF Head(reqs).dst = n /\ Head(reqs).err = "nil"
       THEN <<Head(reqs).id>> \o SentTo(n, Tail(reqs))
       ELSE SentTo(n, Tail(reqs))

\* the members of `ids` that are in `keep`, in the order of `ids`
RECURSIVE Only(_, _)
Only(ids, keep) ==
  IF ids = <<>> THEN <<>>
  ELSE IF \E i \in 1..Len(keep) : keep[i] = Head(ids)
       THEN <<Head(ids)>> \o Only(Tail(ids), keep)
       ELSE Only(Tail(ids), keep)

\* C19: the messages the sender routed to a node by calls of Send that
\* succeeded are taken out of that node's mailbox, or wait in it, in the
\* order the sender gave them, within a batch and across calls
C19_RoutingFifo ==
  \A n \in {Receiver, Side} :
    Only(Arrived(n), SentTo(n, requests)) = SentTo(n, requests)

\* the receiver has taken three signals out of its mailbox and more wait,
\* the sender having routed a batch for both receivers
C19_Witness ==
  /\ Len(chan[Receiver]) >= 3
  /\ mailbox[Receiver] # <<>>
  /\ \E i \in 1..(Len(requests) - 1) :
       /\ requests[i].dst = Side /\ requests[i + 1].dst = Receiver
       /\ requests[i].err = "nil"
       /\ Got(Receiver, NewBaseSignal(requests[i + 1].id, "Direct"))

\* ------------------------------------------------------------------------
\* A listener nobody reads: one node is sent more signals than its
\* listener's channel holds

\* signals sent to the observed node
MaxSignals == 102

Observed == "q"

\* the sender routes one more signal to the observed node, whose mailbox
\* has room for it
Notify ==
  /\ ~panicked
  /\ epoch[Sender] < MaxSignals
  /\ Len(mailbox[Observed]) < MsgChanSize
  /\ mailbox' = Send(mailbox, <<[src |-> Sender, dest |-> Observed,
                                 sig |-> NewBaseSignal(NewID(Sender, Observed, epoch[Sender]), "Direct")]>>)
  /\ epoch' = [epoch EXCEPT ![Sender] = @ + 1]
  /\ UNCHANGED <<ext, chan, requests, panicked, call>>

NextListener ==
  \/ Notify
  \/ Deliver(Observed)

SpecListener == InitRouter /\ [][NextListener]_vars

\* the listener's channel holds Buffer signals
ChanFull(n) == Len(chan[n]) = ListenerBuffer

\* C20: when the run loop hands a signal to the listener, the channel takes
\* it at its end if it holds fewer than Buffer signals and is left as it was
\* otherwise, the turn routes no message in either case, and a full channel
\* never keeps the run loop from taking its next message
C20_ListenerNeverBlocks ==
  /\ [][Deliver(Observed) =>
          /\ chan'[Observed] = IF ChanFull(Observed) THEN chan[Observed]
                               ELSE Append(chan[Observed], Msg(Observed).sig)
          /\ mailbox' = [mailbox EXCEPT ![Observed] = Tail(@)]]_vars
  /\ [](ChanFull(Observed) /\ HasMsg(Observed) => ENABLED Deliver(Observed))

\* every signal has been sent and taken by the run loop, two more than the
\* channel holds, and the channel ends with the last signal it had room for
C20_Witness ==
  /\ epoch[Sender] = ListenerBuffer + 2
  /\ mailbox[Observed] = <<>>
  /\ ChanFull(Observed)
  /\ chan[Observed][ListenerBuffer] = NewBaseSignal(NewID(Sender, Observed, ListenerBuffer - 1), "Direct")

\* ------------------------------------------------------------------------
\* External code waiting for the response to a request it has sent

\* requests the waiter may have made before the one it waits for
MaxAsked == 3

Waiter == "c1"
Responder == "p"

ErrorStrings == {"not_locked", "not_unlocked", "acl_denied"}

\* a nil Signal
NoSignal == [type |-> "nil"]

\* NewErrorSignal of signal.go: a StringSignal on a new direct BaseSignal,
\* whose UUID is `uuid`
NewErrorSignalBase(req_id, err, uuid) ==
  [NewBaseSignal(uuid, "Direct") EXCEPT !.type = "error", !.str = err]

\* NewReadResultSignal of signal.go: a BaseSignal whose UUID is req_id
NewReadResultSignalBase(req_id) ==
  [NewBaseSignal(req_id, "Direct") EXCEPT !.type = "read_result"]

\* NewReadResultSignal on a ResponseHeader
NewReadResultSignal(req_id) ==
  [type |-> "read_result", dir |-> "Direct", id |-> ZeroID, req |-> req_id, str |-> "", node |-> NoNode]

\* the signals that implement ResponseSignal
IsResponse(signal) == signal.type \in {"success", "error", "read_result"} /\ signal.req # ZeroID

\* WaitForResponse with a waiter that takes any response for its own
AnswersAny(signal, req_id) == IsResponse(signal)

\* the test of WaitForResponse: a response whose ResponseID is req_id
Answers(signal, req_id) == IsResponse(signal) /\ signal.req = req_id

\* the test of WaitForResult: a signal whose ID is id
HasID(result, id) == result.id = id

\* a call of WaitForResult or WaitForResponse on the listener channel of
\* `node` that has not returned
Waiting(fn, node, id) ==
  [fn |-> fn, node |-> node, id |-> id, signals |-> <<>>, response |-> NoSignal, err |-> "pending"]

\* WaitForResult when the channel delivers `result`
WaitForResult(c, result) ==
  [c EXCEPT !.response = result, !.err = IF HasID(result, c.id) THEN "nil" ELSE "WRONG_ID"]

\* one turn of the loop of WaitForResponse when the channel delivers `signal`
WaitForResponse(c, signal) ==
  IF Answers(signal, c.id)
  THEN [c EXCEPT !.response = signal, !.err = "nil"]
  ELSE [c EXCEPT !.signals = Append(@, signal)]

\* either function when its timeout channel fires
TimedOut(c) ==
  [c EXCEPT !.err = IF c.fn = "WaitForResult" THEN "timeout" ELSE "LISTENER_TIMEOUT"]

\* the select takes the next signal of the listener channel
Receive ==
  /\ call.fn \in {"WaitForResult", "WaitForResponse"}
  /\ call.err = "pending"
  /\ chan[call.node] # <<>>
  /\ call' = IF call.fn = "WaitForResult"
             THEN WaitForResult(call, Head(chan[call.node]))
             ELSE WaitForResponse(call, Head(chan[call.node]))
  /\ chan' = [chan EXCEPT ![call.node] = Tail(@)]
  /\ UNCHANGED <<ext, mailbox, epoch, requests, panicked>>

\* the select takes the timeout
Timeout ==
  /\ call.fn \in {"WaitForResult", "WaitForResponse"}
  /\ call.err = "pending"
  /\ call' = TimedOut(call)
  /\ UNCHANGED <<ext, mailbox, chan, epoch, requests, panicked>>

\* external code has sent its k-th request and waits for the response
Ask(fn, k) ==
  /\ call = NoCall
  /\ call' = Waiting(fn, Waiter, NewID(Waiter, Responder, k))
  /\ UNCHANGED <<ext, mailbox, chan, epoch, requests, panicked>>

\* the responses the responder can build for request req_id, for a waiter
\* of each kind
Responses(fn, req_id) ==
  IF fn = "WaitForResult"
  THEN {NewErrorSignalBase(req_id, err, NewID(Responder, Waiter, k)) :
          err \in ErrorStrings, k \in 0..(MaxAsked - 1)}
       \cup {NewReadResultSignalBase(req_id)}
  ELSE {NewErrorSignal(req_id, err) : err \in ErrorStrings}
       \cup {NewSuccessSignal(req_id), NewReadResultSignal(req_id)}

\* the response to the request arrives on the waiter's listener channel
Answer(signal) ==
  /\ call.fn \in {"WaitForResult", "WaitForResponse"}
  /\ call.err = "pending"
  /\ chan[Waiter] = <<>>
  /\ chan' = [chan EXCEPT ![Waiter] = ListenerProcess(@, signal)]
  /\ UNCHANGED <<ext, mailbox, epoch, requests, panicked, call>>

NextCorrelate ==
  \/ \E fn \in {"WaitForResult", "WaitForResponse"} : \E k \in 0..(MaxAsked - 1) : Ask(fn, k)
  \/ call # NoCall /\ \E signal \in Responses(call.fn, call.id) : Answer(signal)
  \/ Receive
  \/ Timeout

SpecCorrelate == InitRouter /\ [][NextCorrelate]_vars

\* C21: a waiter that takes from its channel the response built for its
\* request returns that response with no error, whether the response is an
\* Error, a Success or a ReadResult
C21_ResponseCorrelated ==
  [][Receive => /\ call'.err = "nil"
                /\ call'.response = Head(chan[Waiter])]_vars

\* ------------------------------------------------------------------------
\* testSend: a listener node sends Lock and Unlock requests to a lockable
\* and waits on its own listener channel for the response to one of them

\* requests the waiter sends
MaxWaitReq == 2

\* the waiter sends one more request to the lockable at the head of the chain
Ping(state) ==
  /\ Len(requests) < MaxWaitReq
  /\ Issue(Waiter, Responder, state)

\* the waiter calls WaitForResponse for the i-th request it has sent
Wait(i) ==
  /\ call = NoCall
  /\ call' = Waiting("WaitForResponse", Waiter, requests[i].id)
  /\ UNCHANGED <<ext, mailbox, chan, epoch, requests, panicked>>

NextWait ==
  \/ \E state \in {"lock", "unlock"} : Ping(state)
  \/ \E i \in 1..Len(requests) : Wait(i)
  \/ \E n \in Nodes : Deliver(n)
  \/ Receive
  \/ Timeout

SpecWait == InitUp /\ [][NextWait]_vars

\* `signal` is a response whose ResponseID is req_id
ResponseTo(signal, req_id) ==
  signal.type \in {"success", "error", "read_result"} /\ signal.req = req_id

\* none of the signals the waiter has collected is a response to its request
NoneCollected ==
  \A i \in 1..Len(call.signals) : ~ResponseTo(call.signals[i], call.id)

\* C22: WaitForResponse collects the signals it takes from the channel in
\* arrival order until one is a response to req_id, which it returns with
\* no error; on timeout it returns the timeout error, no response and the
\* signals collected so far; neither step touches a node's mailbox or state
C22_WaitForResponse ==
  /\ [][/\ Receive =>
            LET signal == Head(chan[Waiter])
            IN IF ResponseTo(signal, call.id)
               THEN call' = [call EXCEPT !.response = signal, !.err = "nil"]
               ELSE call' = [call EXCEPT !.signals = Append(@, signal)]
        /\ Timeout =>
            call' = [call EXCEPT !.err = "LISTENER_TIMEOUT"]
        /\ Receive \/ Timeout => UNCHANGED <<ext, mailbox>>]_vars
  /\ [](call # NoCall =>
          /\ NoneCollected
          /\ call.err = "nil" <=> call.response # NoSignal
          /\ call.err = "nil" => ResponseTo(call.response, call.id))

\* the waiter has returned the response to its second request, having
\* collected the response to its first on the way
C22_Witness ==
  /\ call # NoCall
  /\ call.err = "nil"
  /\ Len(requests) = 2
  /\ call.id = requests[2].id
  /\ call.signals = <<NewSuccessSignal(requests[1].id)>>
  /\ call.response = NewSuccessSignal(requests[2].id)

\* ------------------------------------------------------------------------
\* Library functions called on their own: the nodes stay as constructed

nodeVars == <<ext, mailbox, chan, epoch, requests, panicked>>

NodesIdle ==
  /\ ext = [n \in Nodes |-> NewLockableExt({})]
  /\ mailbox = [n \in Nodes |-> <<>>]
  /\ chan = [n \in Nodes |-> <<>>]
  /\ epoch = [n \in Nodes |-> 0]
  /\ requests = <<>>
  /\ panicked = FALSE

\* the sequences over S of length lo to hi
SeqsOf(S, lo, hi) == UNION {[1..len -> S] : len \in lo..hi}

\* ------------------------------------------------------------------------
\* Changes.Add

\* entries of a Changes value before Add, and fields of one Add
MaxChanges == 2

FieldNames == {"requirement_added", "requirement_removed", "locked"}

\* Changes.Add of extension.go, as the caller sees it: the method appends
\* to a copy of the slice header and points its own receiver variable at
\* the copy, so the value the caller holds is the one it passed
ChangesAdd(changes, fields) ==
  LET new_changes == changes \o fields
  IN changes

InitChanges ==
  /\ NodesIdle
  /\ \E changes \in SeqsOf(FieldNames, 0, MaxChanges) :
       call = [fn |-> "Changes.Add", before |-> changes, fields |-> <<>>, changes |-> changes]

\* the caller calls changes.Add(fields...)
AddFields(fields) ==
  /\ call.fields = <<>>
  /\ call' = [call EXCEPT !.fields = fields, !.changes = ChangesAdd(@, fields)]
  /\ UNCHANGED nodeVars

NextChanges == \E fields \in SeqsOf(FieldNames, 1, MaxChanges) : AddFields(fields)

SpecChanges == InitChanges /\ [][NextChanges]_vars

\* C23: the Changes value the caller holds after changes.Add(f1, ..., fn)
\* is its previous entries followed by f1, ..., fn
C23_AddVisible == call.changes = call.before \o call.fields

\* ------------------------------------------------------------------------
\* Serialized headers: big-endian unsigned integers in byte slices

\* an unsigned integer below 2^31 as 16-bit digits, most significant
\* first: two digits for a uint32, four for a uint64
Digits32(x) == <<x \div 65536, x % 65536>>
Digits64(x) == <<0, 0>> \o Digits32(x)

\* binary.BigEndian.PutUint32 / PutUint64: the bytes of the digits
RECURSIVE PutUint(_)
PutUint(digits) ==
  IF digits = <<>> THEN <<>>
  ELSE <<Head(digits) \div 256, Head(digits) % 256>> \o PutUint(Tail(digits))

\* the bytes read least significant first
UintLittleEndian(bytes) ==
  [i \in 1..(Len(bytes) \div 2) |-> bytes[Len(bytes) - 2 * i + 2] * 256 + bytes[Len(bytes) - 2 * i + 1]]

\* binary.BigEndian.Uint32 / Uint64: the digits of 4 or 8 bytes
Uint(bytes) ==
  [i \in 1..(Len(bytes) \div 2) |-> bytes[2 * i - 1] * 256 + bytes[2 * i]]

\* int(x) of a uint64 where int has 32 bits: the low half of the number
IntOf32(digits) ==
  IF digits[3] < 32768 THEN digits[3] * 65536 + digits[4] ELSE -1

\* int(x) of a uint64 where int has 64 bits: the same number below 2^31;
\* larger and negative results, which no slice length here equals, are
\* one value
IntOf(digits) ==
  IF digits[1] = 0 /\ digits[2] = 0 /\ digits[3] < 32768
  THEN digits[3] * 65536 + digits[4]
  ELSE -1

\* Hash: eight bytes of the SHA-512 of a type's prefixed name, here one
\* fixed value per name
Hash(name) ==
  CASE name = "lock"  -> <<4660, 22136, 37035, 52719>>
    [] name = "link"  -> <<4660, 22136, 37035, 52720>>
    [] name = "node"  -> <<51966, 47806, 0, 1>>
    [] name = "thread" -> <<51966, 47806, 0, 2>>
    [] OTHER          -> <<65261, 64206, 57005, 48879>>

\* ------------------------------------------------------------------------
\* ParseSignal

SIGNAL_SER_MAGIC == 1966761182
SIGNAL_SER_HEADER_LENGTH == 20
NODE_DB_MAGIC == 613539604

\* bytes of a serialized signal body
MaxBody == 2

\* ctx.Signals: the registered signal types by hash
SignalTypes == {"lock", "link"}
Signals == {Hash(name) : name \in SignalTypes}

\* what a parse or load returns before it has been called
NotRun == [done |-> FALSE]

\* return nil, fmt.Errorf(...)
Fails(err) == [done |-> TRUE, value |-> NoSignal, err |-> err, loaded |-> FALSE]

\* signal_def.Load: Deserialize the body, which fails on an empty one
Load(type_hash, body) ==
  IF body = <<>>
  THEN [done |-> TRUE, value |-> NoSignal, err |-> "deserialize", loaded |-> TRUE]
  ELSE [done |-> TRUE, value |-> [type |-> type_hash, body |-> body], err |-> "nil", loaded |-> TRUE]

ParseSignal(ctx, data) ==
  IF Len(data) < SIGNAL_SER_HEADER_LENGTH
  THEN Fails("data shorter than header length")
  ELSE LET header == [Magic |-> Uint(SubSeq(data, 1, 4)),
                      TypeHash |-> Uint(SubSeq(data, 5, 12)),
                      Length |-> Uint(SubSeq(data, 13, 20))]
           left == Len(data) - SIGNAL_SER_HEADER_LENGTH
       IN IF header.Magic # Digits32(SIGNAL_SER_MAGIC) THEN Fails("signal magic mismatch")
          ELSE IF IntOf(header.Length) # left THEN Fails("signal length mismatch")
          ELSE IF header.TypeHash \notin ctx THEN Fails("not a known signal type")
          ELSE Load(header.TypeHash, SubSeq(data, SIGNAL_SER_HEADER_LENGTH + 1, Len(data)))

\* magic numbers a header may start with: the signal magic, the magic of a
\* node record, and the signal magic written least significant byte first
Magics == {Digits32(SIGNAL_SER_MAGIC), Digits32(NODE_DB_MAGIC),
           UintLittleEndian(PutUint(Digits32(SIGNAL_SER_MAGIC)))}

\* Length fields: small ones, the same plus 2^32, and the same plus 2^63
Lengths ==
  {Digits64(len) : len \in 0..(MaxBody + 1)}
  \cup {<<0, 1, 0, len>> : len \in 0..MaxBody}
  \cup {<<32768, 0, 0, len>> : len \in 0..MaxBody}

\* bodies: up to MaxBody bytes, each an opening or a closing brace
Bodies == SeqsOf({123, 125}, 0, MaxBody)

\* SerializeSignal's layout with the fields of `made`
Serialized(made) ==
  PutUint(made.magic) \o PutUint(Hash(made.type)) \o PutUint(made.length) \o made.body

\* lengths the input is cut to: inside the header, or anywhere in the body
Cuts(full) == {0, 4, SIGNAL_SER_HEADER_LENGTH - 1} \cup (SIGNAL_SER_HEADER_LENGTH..Len(full))

InitParse ==
  /\ NodesIdle
  /\ \E magic \in Magics, type \in SignalTypes \cup {"bogus"}, length \in Lengths, body \in Bodies :
       LET made == [magic |-> magic, type |-> type, length |-> length, body |-> body]
       IN \E cut \in Cuts(Serialized(made)) :
            call = [fn |-> "ParseSignal", made |-> made,
                    data |-> SubSeq(Serialized(made), 1, cut), out |-> NotRun]

Parse ==
  /\ call.fn = "ParseSignal"
  /\ ~call.out.done
  /\ call' = [call EXCEPT !.out = ParseSignal(Signals, call.data)]
  /\ UNCHANGED nodeVars

NextParse == Parse

SpecParse == InitParse /\ [][NextParse]_vars

\* the input has fewer bytes than a header
ShortInput == Len(call.data) < SIGNAL_SER_HEADER_LENGTH
\* the input was made with a magic other than the signal magic
WrongMagic == call.made.magic # Digits32(SIGNAL_SER_MAGIC)
\* the Length field it was made with is not the number of bytes after the header
WrongLength == call.made.length # Digits64(Len(call.data) - SIGNAL_SER_HEADER_LENGTH)
\* the type it was made with is not registered
UnknownType == call.made.type \notin SignalTypes

\* C24: ParseSignal returns an error and no signal, without calling the
\* loader, for an input shorter than the header, with another magic, with a
\* Length field that is not the number of bytes after the header, or with
\* an unregistered type hash
C24_ParseRejects ==
  call.out.done =>
    (ShortInput \/ WrongMagic \/ WrongLength \/ UnknownType
       => call.out.value = NoSignal /\ call.out.err # "nil" /\ ~call.out.loaded)

\* ParseSignal has refused an input whose only fault is a Length field
\* that is 2^32 more than the two bytes that follow the header
C24_Witness ==
  /\ call.out.done
  /\ ~WrongMagic /\ ~UnknownType
  /\ Len(call.data) = SIGNAL_SER_HEADER_LENGTH + 2
  /\ call.made.length = <<0, 1, 0, 2>>
  /\ call.out.err = "signal length mismatch"

\* ------------------------------------------------------------------------
\* Loading a node from the database

NODE_DB_HEADER_LEN == 12

\* ctx.Types: the registered node types by hash, each with its Load
\* function or with none
NodeTypes == {"node", "thread"}
Types == [type_hash \in {Hash(name) : name \in NodeTypes} |->
            IF type_hash = Hash("node") THEN "LoadGraphNode" ELSE "nil"]

\* a reader that takes a header with any magic
AnyMagic(magic) == TRUE

\* header.Magic != NODE_DB_MAGIC, negated
NodeMagic(magic) == magic = Digits32(NODE_DB_MAGIC)

\* node_type, exists := ctx.Types[type_hash]
Registered(types, type_hash) == type_hash \in DOMAIN types

\* return 0, nil, err / return nil, err
FailsLoad(err) == [done |-> TRUE, value |-> NoNode, err |-> err, loaded |-> FALSE]

\* LoadGraphNode: a graph node has no data of its own
LoadGraphNode(id, data) ==
  IF Len(data) > 0
  THEN [done |-> TRUE, value |-> NoNode, err |-> "graph_node with data", loaded |-> TRUE]
  ELSE [done |-> TRUE, value |-> id, err |-> "nil", loaded |-> TRUE]

\* readNodeBytes: the record of `id` in the database `db`, split into its
\* type hash and the bytes after the header
readNodeBytes(db, id) ==
  IF id \notin DOMAIN db THEN [err |-> "Key not found"]
  ELSE LET bytes == db[id]
       IN IF Len(bytes) < NODE_DB_HEADER_LEN THEN [err |-> "header too short"]
          ELSE LET header == [Magic |-> Uint(SubSeq(bytes, 1, 4)),
                              TypeHash |-> Uint(SubSeq(bytes, 5, 12))]
               IN IF ~NodeMagic(header.Magic) THEN [err |-> "invalid magic"]
                  ELSE [err |-> "nil", type_hash |-> header.TypeHash,
                        node_bytes |-> SubSeq(bytes, NODE_DB_HEADER_LEN + 1, Len(bytes))]

\* LoadNodeRecurse: a node already in `nodes` is returned as it is, any
\* other is read from the database and loaded by its type
LoadNodeRecurse(types, db, id, nodes) ==
  IF id \in nodes THEN [done |-> TRUE, value |-> id, err |-> "nil", loaded |-> FALSE]
  ELSE LET read == readNodeBytes(db, id)
       IN IF read.err # "nil" THEN FailsLoad(read.err)
          ELSE IF ~Registered(types, read.type_hash) THEN FailsLoad("not a known node type")
          ELSE IF types[read.type_hash] = "nil" THEN FailsLoad("invalid node type, nil Load")
          ELSE LoadGraphNode(id, read.node_bytes)

\* LoadNode
LoadNode(types, db, id) == LoadNodeRecurse(types, db, id, {})

\* WriteNode's layout with the fields of `made`
Record(made) == PutUint(made.magic) \o PutUint(Hash(made.type)) \o made.body

\* magic numbers a record may start with
RecordMagics == {Digits32(NODE_DB_MAGIC), Digits32(SIGNAL_SER_MAGIC),
                 UintLittleEndian(PutUint(Digits32(NODE_DB_MAGIC)))}

\* lengths the record is cut to: inside the header, or anywhere after it
RecordCuts(full) == {0, 4, NODE_DB_HEADER_LEN - 1} \cup (NODE_DB_HEADER_LEN..Len(full))

Stored == "p"

\* the database holds one record for the node, whole or cut short; the
\* record of every other node is missing
InitLoad ==
  /\ NodesIdle
  /\ \E magic \in RecordMagics, type \in NodeTypes \cup {"lock", "bogus"}, body \in Bodies :
       LET made == [magic |-> magic, type |-> type, body |-> body]
       IN \E cut \in RecordCuts(Record(made)) :
            call = [fn |-> "LoadNode", made |-> made,
                    db |-> [id \in {Stored} |-> SubSeq(Record(made), 1, cut)], out |-> NotRun]

LoadStored(id) ==
  /\ call.fn = "LoadNode"
  /\ ~call.out.done
  /\ call' = [call EXCEPT !.out = LoadNode(Types, call.db, id)]
  /\ UNCHANGED nodeVars

NextLoad == \E id \in {Stored, "q"} : LoadStored(id)

SpecLoad == InitLoad /\ [][NextLoad]_vars

\* the stored record has fewer bytes than a header
ShortRecord == Len(call.db[Stored]) < NODE_DB_HEADER_LEN
\* the record was written with a magic other than the node magic
WrongRecordMagic == call.made.magic # Digits32(NODE_DB_MAGIC)
\* the record was written with a type that is no registered node type
UnknownNodeType == call.made.type \notin NodeTypes

\* C25: LoadNode returns an error and no node, without calling the type's
\* Load, when the stored record is shorter than the header, starts with
\* another magic, or has a type hash that is no registered node type
C25_LoadRejects ==
  call.out.done =>
    (ShortRecord \/ WrongRecordMagic \/ UnknownNodeType
       => call.out.value = NoNode /\ call.out.err # "nil" /\ ~call.out.loaded)

\* LoadNode has refused a whole record with the node magic whose type
\* hash is that of a signal type
C25_Witness ==
  /\ call.out.done
  /\ ~ShortRecord /\ ~WrongRecordMagic
  /\ call.made.type = "lock"
  /\ call.out.err = "not a known node type"

\* ------------------------------------------------------------------------
\* Policy trees

\* tags in a tree, counted over all its levels
MaxTags == 2

Tags == {"lock", "link"}

\* the tree with no tag: a leaf
Leaf == <<>>

RECURSIVE Size(_)
Size(tree) ==
  IF DOMAIN tree = {} THEN 0
  ELSE LET tag == CHOOSE t \in DOMAIN tree : TRUE
           rest == [t \in DOMAIN tree \ {tag} |-> tree[t]]
       IN 1 + Size(tree[tag]) + Size(rest)

\* the trees of at most n tags
RECURSIVE TreesUpTo(_)
TreesUpTo(n) ==
  IF n = 0 THEN {Leaf}
  ELSE {tree \in UNION {[S -> TreesUpTo(n - 1)] : S \in SUBSET Tags} : Size(tree) <= n}

\* a granted leaf that absorbs nothing
AbsorbsNothing(granted) == FALSE

\* a leaf on the granted side absorbs any subtree on the required side
Absorbs(granted) == DOMAIN granted = {}

\* a granted tree covers a required tree
RECURSIVE Covers(_, _)
Covers(granted, required) ==
  \/ Absorbs(granted)
  \/ \A tag \in DOMAIN required :
       tag \in DOMAIN granted /\ Covers(granted[tag], required[tag])

InitAllow ==
  /\ NodesIdle
  /\ \E granted \in TreesUpTo(MaxTags), required \in TreesUpTo(MaxTags) :
       call = [fn |-> "allow", granted |-> granted, required |-> required, out |-> NotRun]

\* the policy is evaluated for the trees, and again with another granted
\* tree and with another required tree
Allow(wider, narrower) ==
  /\ call.fn = "allow"
  /\ ~call.out.done
  /\ call' = [call EXCEPT !.out =
                [done |-> TRUE, wider |-> wider, narrower |-> narrower,
                 allow |-> Covers(call.granted, call.required),
                 allow_wider |-> Covers(wider, call.required),
                 allow_narrower |-> Covers(call.granted, narrower)]]
  /\ UNCHANGED nodeVars

NextAllow == \E wider \in TreesUpTo(MaxTags), narrower \in TreesUpTo(MaxTags) : Allow(wider, narrower)

SpecAllow == InitAllow /\ [][NextAllow]_vars

\* tree `more` contains every grant of tree `less`: it is a leaf, or
\* `less` is none and each of its tags is in `more` with a subtree that
\* contains every grant of its own
RECURSIVE ContainsGrants(_, _)
ContainsGrants(more, less) ==
  \/ DOMAIN more = {}
  \/ /\ DOMAIN less # {}
     /\ \A tag \in DOMAIN less :
          tag \in DOMAIN more /\ ContainsGrants(more[tag], less[tag])

\* tree `less` requires a subset of tree `more`: each of its tags is in
\* `more` with a subtree that requires a subset of its own
RECURSIVE RequiresSubset(_, _)
RequiresSubset(less, more) ==
  \A tag \in DOMAIN less :
    tag \in DOMAIN more /\ RequiresSubset(less[tag], more[tag])

\* C26: when G covers T, every granted tree that contains the grants of G
\* covers T and G covers every tree that requires a subset of T; a granted
\* leaf covers every required tree
C26_Subsumption ==
  call.fn = "allow" /\ call.out.done =>
    /\ call.out.allow /\ ContainsGrants(call.out.wider, call.granted) => call.out.allow_wider
    /\ call.out.allow /\ RequiresSubset(call.out.narrower, call.required) => call.out.allow_narrower
    /\ call.granted = Leaf => call.out.allow

\* a granted tree of one tag covers a required tree of two levels, a
\* granted tree with a second tag still covers it and the granted tree
\* covers the required tree's first level; a granted leaf covers it too
C26_Witness ==
  /\ call.fn = "allow" /\ call.out.done
  /\ call.granted = [tag \in {"lock"} |-> Leaf]
  /\ call.required = [tag \in {"lock"} |-> [sub \in {"link"} |-> Leaf]]
  /\ call.out.wider = [tag \in Tags |-> Leaf]
  /\ call.out.narrower = [tag \in {"lock"} |-> Leaf]
  /\ call.out.allow /\ call.out.allow_wider /\ call.out.allow_narrower
  /\ Covers(Leaf, call.required)

\* ------------------------------------------------------------------------
\* The policy check of the run loop: a node whose policies are added one by
\* one is sent Lock and Unlock requests by a listener node

\* AllNodesPolicy / PerNodePolicy
NewAllNodesPolicy(tree) == [kind |-> "AllNodes", tree |-> tree]
NewPerNodePolicy(trees) == [kind |-> "PerNode", trees |-> trees]

\* LockSignal.Permission: the signal's type, then its State;
\* TimeoutSignal.Permission: the nil tree
Permission(signal) ==
  IF signal.type = "timeout" THEN Leaf
  ELSE [tag \in {signal.type} |-> [sub \in {signal.str} |-> Leaf]]

\* the policies the node may be given: everything to every node, Lock
\* with State lock to every node, Lock with State unlock to the waiter,
\* everything to another node
PolicyPool ==
  { NewAllNodesPolicy(Leaf),
    NewAllNodesPolicy([tag \in {"lock"} |-> [sub \in {"lock"} |-> Leaf]]),
    NewPerNodePolicy([n \in {Waiter} |-> [tag \in {"lock"} |-> [sub \in {"unlock"} |-> Leaf]]]),
    NewPerNodePolicy([n \in {"c2"} |-> Leaf]) }

\* the policy grants `principal` a tree that covers `required`
PolicyAllows(policy, principal, required) ==
  IF policy.kind = "AllNodes" THEN Covers(policy.tree, required)
  ELSE principal \in DOMAIN policy.trees /\ Covers(policy.trees[principal], required)

\* a check that wants every policy to grant the signal
AdmittedByAll(policies, principal, signal) ==
  \/ signal.type \in {"success", "error"}
  \/ \A policy \in policies : PolicyAllows(policy, principal, Permission(signal))

\* the policy check: responses pass by default, any other signal needs a
\* policy that grants its permission tree
Admitted(policies, principal, signal) ==
  \/ signal.type \in {"success", "error"}
  \/ \E policy \in policies : PolicyAllows(policy, principal, Permission(signal))

InitACL ==
  /\ NodesIdle
  /\ call = [fn |-> "NewNode", policies |-> {}]

\* the node is given one more policy
AddPolicy(policy) ==
  /\ policy \notin call.policies
  /\ call' = [call EXCEPT !.policies = @ \cup {policy}]
  /\ UNCHANGED nodeVars

\* one turn of n's run loop: the policy check, then either the extensions
\* or the reply Error("acl_denied") to the sender
Screen(n) ==
  /\ ~panicked
  /\ HasMsg(n)
  /\ IF Admitted(call.policies, Msg(n).src, Msg(n).sig)
     THEN Deliver(n)
     ELSE /\ mailbox' = Send([mailbox EXCEPT ![n] = Tail(@)],
                             Add(<<>>, n, NewErrorSignal(Msg(n).sig.id, "acl_denied"), Msg(n).src))
          /\ UNCHANGED <<ext, chan, epoch, requests, panicked, call>>

NextACL ==
  \/ \E state \in {"lock", "unlock"} : Ping(state)
  \/ \E policy \in PolicyPool : AddPolicy(policy)
  \/ Screen(Responder)
  \/ Deliver(Waiter)

SpecACL == InitACL /\ [][NextACL]_vars

\* one of the node's policies grants the waiter the permission tree of `signal`
SomePolicyGrants(signal) ==
  \E policy \in call.policies :
    \/ policy.kind = "AllNodes" /\ Covers(policy.tree, Permission(signal))
    \/ /\ policy.kind = "PerNode"
       /\ Waiter \in DOMAIN policy.trees
       /\ Covers(policy.trees[Waiter], Permission(signal))

\* the turn answers the waiter's `signal` with Error("acl_denied") and
\* leaves every extension as it was
TurnedDown(signal) ==
  /\ Routed(Waiter, Responder, NewErrorSignal(signal.id, "acl_denied"))
  /\ UNCHANGED ext

C28_OwnerIffHeld ==
  \A n \in Nodes :
    ext[n].Owner # NoNode <=> ext[n].State \in {"Locked", "Unlocking", "AbortingLock"}

\* C28 as the handlers keep it: a lockable has an Owner exactly when its State
\* is Locked or Unlocking; while Locking and while AbortingLock the requester
\* is only the PendingOwner
C28_OwnerIffLockedOrUnlocking ==
  \A n \in Nodes :
    ext[n].Owner # NoNode <=> ext[n].State \in {"Locked", "Unlocking"}

\* a lockable that is aborting a lock for a requester it has not made its Owner
C28_Witness ==
  \E n \in Lockables :
    /\ ext[n].State = "AbortingLock"
    /\ ext[n].Owner = NoNode
    /\ ext[n].PendingOwner # NoNode

\* lockable with extension e has sent requirement r a Lock or Unlock and is
\* waiting for the response
Awaits(e, r) ==
  /\ r \in DOMAIN e.Requirements
  /\ e.Requirements[r].State \in {"Locking", "Unlocking"}

\* requirement r of e counts as locked
HoldsReq(e, r) ==
  /\ r \in DOMAIN e.Requirements
  /\ e.Requirements[r].State = "Locked"

\* the step in which n processes the response of requirement r to the
\* request whose ID the entry of r records
Answered(n, r) ==
  /\ HasMsg(n)
  /\ Msg(n).src = r
  /\ Msg(n).sig.type \in {"success", "error"}
  /\ Awaits(ext[n], r)
  /\ Msg(n).sig.req = ext[n].Requirements[r].MsgID
  /\ Deliver(n)

\* after the step n still waits for the response to the same request of r
StillAwaits(n, r) ==
  /\ Awaits(ext'[n], r)
  /\ ext'[n].Requirements[r].MsgID = ext[n].Requirements[r].MsgID

\* a response that is processed ends the wait for it
C29_ResponseEndsWait ==
  [][\A n \in Lockables, r \in Nodes : Answered(n, r) => ~StillAwaits(n, r)]_vars

\* the wait for a response ends only when that response is processed
C29_WaitEndsByResponse ==
  [][\A n \in Lockables, r \in Nodes :
       Awaits(ext[n], r) /\ ~StillAwaits(n, r) => Answered(n, r)]_vars

\* a requirement becomes Locked only when the Success for its Lock is processed
C29_LockedBySuccess ==
  [][\A n \in Lockables, r \in Nodes :
       HoldsReq(ext'[n], r) /\ ~HoldsReq(ext[n], r) =>
         /\ Answered(n, r)
         /\ Msg(n).sig.type = "success"
         /\ ext[n].Requirements[r].State = "Locking"]_vars

\* a requirement stops being Locked only when an Unlock is sent to it
C29_LockedUntilUnlock ==
  [][\A n \in Lockables, r \in Nodes :
       HoldsReq(ext[n], r) /\ ~HoldsReq(ext'[n], r) =>
         /\ Awaits(ext'[n], r)
         /\ ext'[n].Requirements[r].State = "Unlocking"
         /\ Routed(r, n, NewLockSignal(ext'[n].Requirements[r].MsgID, "unlock"))]_vars

\* C29: an entry of Requirements is Locking or Unlocking exactly while the
\* Lock or Unlock with its MsgID has been sent and the response to it has not
\* been processed, Locked exactly from the processing of the Success for its
\* Lock until an Unlock is sent, and Unlocked otherwise
C29_RequirementTracksRequest ==
  /\ C29_ResponseEndsWait
  /\ C29_WaitEndsByResponse
  /\ C29_LockedBySuccess
  /\ C29_LockedUntilUnlock

\* the message n is about to process is a Success or an Error
IsResponseMsg(n) ==
  /\ HasMsg(n)
  /\ Msg(n).sig.type \in {"success", "error"}

\* the response n is about to process comes from a requirement of n and
\* answers the request whose ID the entry of that requirement records
Matches(n) ==
  /\ Msg(n).src \in DOMAIN ext[n].Requirements
  /\ Msg(n).sig.req = ext[n].Requirements[Msg(n).src].MsgID

\* the lock fields of n are after the step what they were before
LockFieldsKept(n) ==
  /\ ext'[n].State = ext[n].State
  /\ ext'[n].Owner = ext[n].Owner
  /\ ext'[n].PendingOwner = ext[n].PendingOwner
  /\ ext'[n].Requirements = ext[n].Requirements

\* C30: a Success or Error whose source is not a requirement, or whose ReqID
\* is not the MsgID recorded for that requirement, leaves State, Owner,
\* PendingOwner and the Requirements map of the lockable unchanged
C30_UnmatchedResponseIgnored ==
  [][\A n \in Lockables :
       IsResponseMsg(n) /\ ~Matches(n) /\ Deliver(n) => LockFieldsKept(n)]_vars

\* ------------------------------------------------------------------------
\* Completion of an unlock

\* every requirement of extension e other than r is Unlocked
OthersUnlocked(e, r) ==
  \A x \in DOMAIN e.Requirements \ {r} : e.Requirements[x].State = "Unlocked"

\* the step in which n, Unlocking, processes the Success for the last of
\* the Unlocks it fanned out
LastUnlockAnswered(n, r) ==
  /\ ext[n].State = "Unlocking"
  /\ Answered(n, r)
  /\ Msg(n).sig.type = "success"
  /\ ext[n].Requirements[r].State = "Unlocking"
  /\ OthersUnlocked(ext[n], r)

\* the step completes n's unlock: Success with the Unlock's ID goes to
\* the previous Owner and n has no Owner any more
UnlockCompleted(n) ==
  /\ ext'[n].State = "Unlocked"
  /\ ext'[n].Owner = NoNode
  /\ \A x \in DOMAIN ext'[n].Requirements : ext'[n].Requirements[x].State = "Unlocked"
  /\ Routed(ext[n].Owner, n, NewSuccessSignal(ext[n].ReqID))

\* C31: a lockable in Unlocking becomes Unlocked exactly in the step that
\* processes the Success for the last fanned-out Unlock; in that step it
\* sends Success with the Unlock request's ID to the previous Owner and
\* sets Owner to nil
C31_UnlockCompletion ==
  [][\A n \in Lockables :
       /\ (ext[n].State = "Unlocking" /\ ext'[n].State = "Unlocked") =>
            /\ \E r \in Nodes : LastUnlockAnswered(n, r)
            /\ UnlockCompleted(n)
       /\ \A r \in Nodes : LastUnlockAnswered(n, r) /\ ~panicked' => UnlockCompleted(n)]_vars

\* an Unlock of a lockable with requirements has been answered with Success
\* and the lockable is Unlocked
C31_Witness ==
  \E i \in 1..Len(requests) :
    /\ requests[i].state = "unlock"
    /\ DOMAIN ext[requests[i].dst].Requirements # {}
    /\ ext[requests[i].dst].State = "Unlocked"
    /\ InFlight(requests[i].src, requests[i].dst, NewSuccessSignal(requests[i].id))

\* ------------------------------------------------------------------------
\* A TimeoutSignal sent by another node

MaxTimeouts == 3

\* NewTimeoutSignal, with the ID its header is given
NewTimeoutSignal(id, req_id) ==
  [type |-> "timeout", dir |-> "Direct", id |-> id, req |-> req_id, str |-> "", node |-> NoNode]

\* the waiter signs a TimeoutSignal for a request of its own and routes it
\* to the node
SendTimeout ==
  /\ ~panicked
  /\ Len(requests) < MaxTimeouts
  /\ LET id == NewID(Waiter, Responder, epoch[Waiter])
         signal == NewTimeoutSignal(id, NewID(Waiter, Waiter, epoch[Waiter]))
     IN /\ mailbox' = Send(mailbox, Add(<<>>, Waiter, signal, Responder))
        /\ requests' = Append(requests, [src |-> Waiter, dst |-> Responder, state |-> "timeout", id |-> id])
  /\ epoch' = [epoch EXCEPT ![Waiter] = @ + 1]
  /\ UNCHANGED <<ext, chan, panicked, call>>

NextTimeout ==
  \/ SendTimeout
  \/ \E policy \in PolicyPool : AddPolicy(policy)
  \/ Screen(Responder)
  \/ Deliver(Waiter)

SpecTimeout == InitACL /\ [][NextTimeout]_vars

\* C32: a TimeoutSignal from another node is turned down whatever the
\* policies of the node grant
C32_TimeoutNeverAdmitted ==
  [][Screen(Responder) /\ Msg(Responder).sig.type = "timeout" =>
       TurnedDown(Msg(Responder).sig)]_vars

\* ------------------------------------------------------------------------
\* SerializeSignal

\* block sizes a signal is serialized for: none (0) up to one above the
\* header length plus the longest body
MaxBlock == 23

\* padding that fills the last block even when it is already full
PadAlways(block_size, length) ==
  IF block_size > 0 THEN block_size - (length % block_size) ELSE 0

\* pad_req: the bytes that bring `length` up to a multiple of block_size
PadReq(block_size, length) ==
  IF block_size > 0
  THEN LET pad == block_size - (length % block_size)
       IN IF pad # block_size THEN pad ELSE 0
  ELSE 0

\* make([]byte, n): n zero bytes
Zeros(n) == [i \in 1..n |-> 0]

SerializeSignal(signal, block_size) ==
  LET signal_ser == signal.body
      pad_req == PadReq(block_size, SIGNAL_SER_HEADER_LENGTH + Len(signal_ser))
      header == [Magic |-> Digits32(SIGNAL_SER_MAGIC),
                 TypeHash |-> Hash(signal.type),
                 Length |-> Digits64(Len(signal_ser) + pad_req)]
  IN PutUint(header.Magic) \o PutUint(header.TypeHash) \o PutUint(header.Length)
       \o signal_ser \o Zeros(pad_req)

InitSerialize ==
  /\ NodesIdle
  /\ \E type \in SignalTypes, body \in Bodies, block_size \in 0..MaxBlock :
       call = [fn |-> "SerializeSignal", signal |-> [type |-> type, body |-> body],
               block_size |-> block_size, ser |-> <<>>, out |-> NotRun]

\* SerializeSignal(signal, block_size)
Serialize ==
  /\ call.fn = "SerializeSignal"
  /\ call.ser = <<>>
  /\ call' = [call EXCEPT !.ser = SerializeSignal(call.signal, call.block_size)]
  /\ UNCHANGED nodeVars

\* ParseSignal(ctx, ser) of what SerializeSignal returned
ParseBack ==
  /\ call.fn = "SerializeSignal"
  /\ call.ser # <<>>
  /\ ~call.out.done
  /\ call' = [call EXCEPT !.out = ParseSignal(Signals, call.ser)]
  /\ UNCHANGED nodeVars

NextSerialize == Serialize \/ ParseBack

SpecSerialize == InitSerialize /\ [][NextSerialize]_vars

\* the padding bytes of the serialized signal
Padding == Len(call.ser) - SIGNAL_SER_HEADER_LENGTH - Len(call.signal.body)

\* C33: for block_size > 0 the bytes SerializeSignal returns have a length
\* that is a multiple of block_size, with fewer than block_size bytes of
\* padding, and a Length field equal to the length minus the 20 bytes of
\* the header; ParseSignal's header checks accept them
C33_SerializePads ==
  call.ser # <<>> /\ call.block_size > 0 =>
    /\ Len(call.ser) % call.block_size = 0
    /\ Padding \in 0..(call.block_size - 1)
    /\ Uint(SubSeq(call.ser, 13, 20)) = Digits64(Len(call.ser) - SIGNAL_SER_HEADER_LENGTH)
    /\ call.out.done => call.out.loaded

\* a signal whose header and two body bytes fill two blocks of 11 bytes
\* was serialized without padding, and ParseSignal took the result as far
\* as the loader
C33_Witness ==
  /\ call.ser # <<>> /\ call.out.done /\ call.out.loaded
  /\ call.block_size = 11
  /\ Len(call.signal.body) = 2
  /\ Padding = 0

\* ------------------------------------------------------------------------
\* Mutual exclusion on a shared requirement

\* requests external code issues when it unlocks only what it holds
MaxHeldReq == 2

\* external code sends a Lock to any target
LockAny(src, dst) ==
  /\ Len(requests) < MaxHeldReq
  /\ src = "c2" => \E i \in 1..Len(requests) : requests[i].src = "c1"
  /\ Issue(src, dst, "lock")

\* external code sends an Unlock only to a lockable it has locked and
\* still owns
UnlockHeld(src, dst) ==
  /\ Len(requests) < MaxHeldReq
  /\ ext[dst].State = "Locked"
  /\ ext[dst].Owner = src
  /\ Issue(src, dst, "unlock")

NextHeld ==
  \/ \E dst \in Targets : \E src \in Clients \cup {dst} : LockAny(src, dst)
  \/ \E dst \in Targets : \E src \in Clients \cup {dst} : UnlockHeld(src, dst)
  \/ \E n \in Nodes : Deliver(n)

SpecHeld == Init /\ [][NextHeld]_vars

\* C34: two distinct lockables never both count a requirement they share
\* as Locked, and a requirement a lockable counts as Locked is itself
\* Locked with that lockable as its Owner
C34_SharedRequirementExclusive ==
  \A P \in Lockables : \A r \in DOMAIN ext[P].Requirements :
    HoldsReq(ext[P], r) =>
      /\ ext[r].State = "Locked" /\ ext[r].Owner = P
      /\ \A Q \in Lockables \ {P} : ~HoldsReq(ext[Q], r)

\* a lockable counts a shared requirement as Locked while the other
\* lockable that requires it is aborting its own lock
C34_Witness ==
  \E P \in Lockables, Q \in Lockables : \E r \in Lockables :
    /\ P # Q
    /\ HoldsReq(ext[P], r)
    /\ r \in DOMAIN ext[Q].Requirements
    /\ ext[Q].State = "AbortingLock"

\* ------------------------------------------------------------------------
\* Send over a batch of messages

\* messages of one call of Send
MaxBatchLen == 3
\* messages the sender builds
MaxRouted == 10

\* the ID of a node that is neither in the context nor in the database
Absent == "x"

\* the destinations of one call of Send, in the order of its messages
BatchesOf == UNION {[1..len -> {Receiver, Absent}] : len \in 1..MaxBatchLen}

\* the sender calls ctx.Send with one batch
SendAll(dests) ==
  /\ ~panicked
  /\ epoch[Sender] < MaxRouted
  /\ LET msgs == Batch(dests, epoch[Sender])
     IN /\ mailbox' = Send(mailbox, msgs)
        /\ call' = [fn |-> "Send", msgs |-> msgs, err |-> SendError(mailbox, msgs)]
  /\ epoch' = [epoch EXCEPT ![Sender] = @ + Len(dests)]
  /\ UNCHANGED <<ext, chan, requests, panicked>>

\* the receiver's run loop takes a message now and then: a turn of it that
\* leaves the call record alone
Drain ==
  /\ Len(chan[Receiver]) < 1
  /\ Deliver(Receiver)

NextBatch ==
  \/ \E dests \in BatchesOf : SendAll(dests)
  \/ Drain

SpecBatch == InitRouter /\ [][NextBatch]_vars

\* the step is a call of Send: the call record is a new one
SendReturns == call' # call

\* message i of the batch cannot be delivered when the messages before it
\* have been: its destination is absent, or the mailbox of its destination
\* with the earlier messages for it is full
FailsAt(msgs, i) ==
  \/ msgs[i].dest \notin Nodes
  \/ Len(mailbox[msgs[i].dest]) + Cardinality({j \in 1..(i - 1) : msgs[j].dest = msgs[i].dest})
       >= MsgChanSize

\* number of messages at the head of the batch before the first failure
Delivered(msgs) ==
  IF \E i \in 1..Len(msgs) : FailsAt(msgs, i)
  THEN (CHOOSE i \in 1..Len(msgs) : FailsAt(msgs, i) /\ \A j \in 1..(i - 1) : ~FailsAt(msgs, j)) - 1
  ELSE Len(msgs)

\* the messages among the first k of the batch that go to n, as they are queued
RECURSIVE QueuedFor(_, _, _)
QueuedFor(n, msgs, k) ==
  IF k = 0 THEN <<>>
  ELSE QueuedFor(n, msgs, k - 1) \o
       (IF msgs[k].dest = n THEN <<[src |-> msgs[k].src, sig |-> msgs[k].sig]>> ELSE <<>>)

\* C35: a call of Send enqueues the messages of the batch in order up to
\* the first one whose destination is not found or whose mailbox is full;
\* those before it are added to their mailboxes, it and those after it
\* are not, and the call returns an error exactly when there is such a
\* message
C35_SendStopsAtFailure ==
  [][SendReturns =>
       LET msgs == call'.msgs
           k == Delivered(msgs)
       IN /\ \A n \in Nodes : mailbox'[n] = mailbox[n] \o QueuedFor(n, msgs, k)
          /\ (call'.err = "nil") <=> (k = Len(msgs))]_vars

\* a batch of three whose second message was for an absent node: the call
\* returned the error and only the first message is in the receiver's
\* mailbox
C35_Witness ==
  /\ call # NoCall
  /\ Len(call.msgs) = 3
  /\ call.msgs[1].dest = Receiver /\ call.msgs[2].dest = Absent /\ call.msgs[3].dest = Receiver
  /\ call.err = "NodeNotFoundError"
  /\ mailbox[Receiver] # <<>>
  /\ mailbox[Receiver][Len(mailbox[Receiver])].sig = call.msgs[1].sig

\* ------------------------------------------------------------------------
\* Changes returned by LockableExt.Process

\* C36: Process returns a non-empty Changes exactly when it has modified
\* State, Owner, PendingOwner or an entry of Requirements
C36_ChangesIffModified ==
  [][\A n \in Lockables :
       HasMsg(n) /\ Deliver(n) /\ ~panicked' =>
         (Res(n).changes # <<>> <=> ~LockFieldsKept(n))]_vars

\* ------------------------------------------------------------------------
\* Pointers the handlers dereference

\* the handler panics on the message n is about to process, and not by
\* the panic call of HandleErrorSignal: it dereferences a nil Owner,
\* PendingOwner or ReqID
NilDereference(n) ==
  /\ HasMsg(n)
  /\ Res(n).panic
  /\ ~(Msg(n).sig.type = "error" /\ Msg(n).sig.str = "not_locked")

\* C37: no handler of a lockable dereferences Owner, PendingOwner or ReqID
\* while it is nil
C37_NoNilDereference ==
  [][\A n \in Nodes : Deliver(n) => ~NilDereference(n)]_vars

\* a lockable with requirements has completed the abort of a Lock: it has
\* read ReqID and PendingOwner for the Error it sent to the requester
C37_Witness ==
  \E i \in 1..Len(requests) :
    LET n == requests[i].dst
    IN /\ requests[i].state = "lock"
       /\ DOMAIN ext[n].Requirements # {}
       /\ ext[n].State = "Unlocked"
       /\ ext[n].ReqID = requests[i].id
       /\ InFlight(requests[i].src, n, NewErrorSignal(requests[i].id, "not_unlocked"))

\* ------------------------------------------------------------------------
\* Lock followed by Unlock

\* `signal` from `source` has reached n: it waits in n's mailbox or n's
\* run loop has taken it
Reached(n, source, signal) == InFlight(n, source, signal) \/ Got(n, signal)

\* the lock fields of n are those of a lockable that was never locked
AsNew(n) ==
  /\ ext[n].State = "Unlocked"
  /\ ext[n].Owner = NoNode
  /\ ext[n].PendingOwner = NoNode
  /\ \A r \in DOMAIN ext[n].Requirements :
       ext[n].Requirements[r] = [State |-> "Unlocked", MsgID |-> ZeroID]

\* the requests issued so far are a Lock of a lockable and an Unlock of it
\* by the same requester, and both have been answered with Success
LockedThenUnlocked ==
  /\ Len(requests) = 2
  /\ requests[1].state = "lock" /\ requests[2].state = "unlock"
  /\ requests[1].src = requests[2].src /\ requests[1].dst = requests[2].dst
  /\ \A i \in 1..2 :
       Reached(requests[i].src, requests[i].dst, NewSuccessSignal(requests[i].id))

\* C38: after a Lock answered with Success and an Unlock by the Owner
\* answered with Success, the lockable and each of its requirements is
\* Unlocked without Owner and PendingOwner, every entry of Requirements
\* Unlocked with the zero MsgID
C38_LockUnlockRoundTrip ==
  LockedThenUnlocked =>
    /\ AsNew(requests[1].dst)
    /\ \A r \in TransReqs(ext, requests[1].dst) : AsNew(r)

\* a client has locked and unlocked a lockable that has a requirement
\* with a requirement of its own
C38_Witness ==
  /\ LockedThenUnlocked
  /\ requests[1].src \in Clients
  /\ \E r \in DOMAIN ext[requests[1].dst].Requirements : DOMAIN ext[r].Requirements # {}

\* ------------------------------------------------------------------------
\* SerializedValue: MarshalBinary and ParseSerializedValue

\* types of a TypeStack, bytes of Data, bytes that follow the value, and
\* bytes of the slice's capacity beyond its length
MaxStack == 2
MaxData == 2
MaxTail == 1
MaxSpare == 8

\* the concatenation of the sequences of a sequence
RECURSIVE Flatten(_)
Flatten(seqs) == IF seqs = <<>> THEN <<>> ELSE Head(seqs) \o Flatten(Tail(seqs))

\* SerializedValue.MarshalBinary: the two lengths, the types, the data
MarshalBinary(value) ==
  PutUint(Digits64(Len(value.TypeStack))) \o PutUint(Digits64(Len(value.Data)))
    \o Flatten([i \in 1..Len(value.TypeStack) |-> PutUint(value.TypeStack[i])])
    \o value.Data

\* return SerializedValue{}, nil, fmt.Errorf(...)
FailsValue(err) == [done |-> TRUE, panic |-> FALSE, err |-> err, value |-> NoSignal, rest |-> <<>>]

\* a slice expression or make() with a bound out of range: run-time panic
PanicsValue == [done |-> TRUE, panic |-> TRUE, err |-> "nil", value |-> NoSignal, rest |-> <<>>]

\* data[lo:hi] is in range: the upper bound of a slice of a slice is its
\* capacity, here the length of `array`
InRange(array, lo, hi) == 0 <= lo /\ lo <= hi /\ hi <= Len(array)

\* the types read from the header and the bytes taken as Data, for the
\* offset at which the function places the end of the types
ParsedValue(array, num_types, types_end, data_end) ==
  [TypeStack |-> [i \in 1..num_types |-> Uint(SubSeq(array, (i + 1) * 8 + 1, (i + 2) * 8))],
   Data |-> SubSeq(array, types_end + 1, data_end)]

\* ParseSerializedValue(data) of part_002, which returns the remainder;
\* `spare` are the bytes of data's backing array beyond its length
ParseSerializedValue(data, spare) ==
  LET array == data \o spare
  IN IF Len(data) < 8 THEN FailsValue("at least 8 bytes")
     ELSE IF ~InRange(array, 8, 16) THEN PanicsValue
     ELSE LET num_types == IntOf(Uint(SubSeq(array, 1, 8)))
              data_size == IntOf(Uint(SubSeq(array, 9, 16)))
          IN IF num_types < 0 \/ num_types > Len(array) THEN PanicsValue
             ELSE IF num_types > 0 /\ ~InRange(array, 8, (num_types + 2) * 8) THEN PanicsValue
             ELSE LET types_end == 8 * (num_types + 2)
                      data_end == types_end + data_size
                  IN IF ~InRange(array, types_end, data_end) THEN PanicsValue
                     ELSE IF data_end > Len(data) THEN PanicsValue
                     ELSE [done |-> TRUE, panic |-> FALSE, err |-> "nil",
                           value |-> ParsedValue(array, num_types, types_end, data_end),
                           rest |-> SubSeq(data, data_end + 1, Len(data))]

\* ParseSerializedValue(ctx, data) of part_007, which returns no remainder
ParseSerializedValueCtx(data, spare) ==
  LET array == data \o spare
  IN IF Len(data) < 8 THEN FailsValue("at least 8 bytes")
     ELSE IF ~InRange(array, 8, 16) THEN PanicsValue
     ELSE LET num_types == IntOf(Uint(SubSeq(array, 1, 8)))
              data_size == IntOf(Uint(SubSeq(array, 9, 16)))
          IN IF num_types < 0 \/ num_types > Len(array) THEN PanicsValue
             ELSE IF num_types > 0 /\ ~InRange(array, 8, (num_types + 2) * 8) THEN PanicsValue
             ELSE LET types_end == 8 * (num_types + 1)
                  IN IF ~InRange(array, types_end, types_end + data_size) THEN PanicsValue
                     ELSE [done |-> TRUE, panic |-> FALSE, err |-> "nil",
                           value |-> ParsedValue(array, num_types, types_end, types_end + data_size),
                           rest |-> <<>>]

\* the serialized values: a TypeStack of registered type hashes and Data
\* of brace bytes
Values ==
  [TypeStack : SeqsOf({Hash(name) : name \in SignalTypes}, 0, MaxStack),
   Data : SeqsOf({123, 125}, 0, MaxData)]

\* lengths the input is cut to: inside the first length, between the two
\* lengths, inside the types or the data, or not at all
CutsOf(bytes, whole) == {7, 8, 12, 16, Len(bytes) - 1, Len(bytes), whole}

InitValue ==
  /\ NodesIdle
  /\ \E value \in Values, tail \in SeqsOf({9}, 0, MaxTail), room \in {0, MaxSpare} :
       LET bytes == MarshalBinary(value)
       IN \E cut \in CutsOf(bytes, Len(bytes) + Len(tail)) :
            call = [fn |-> "ParseSerializedValue", value |-> value, tail |-> tail,
                    data |-> SubSeq(bytes \o tail, 1, cut), spare |-> Zeros(room),
                    out |-> NotRun, out_ctx |-> NotRun]

\* ParseSerializedValue(data)
ParseValue ==
  /\ call.fn = "ParseSerializedValue"
  /\ ~call.out.done
  /\ call' = [call EXCEPT !.out = ParseSerializedValue(call.data, call.spare)]
  /\ UNCHANGED nodeVars

\* ParseSerializedValue(ctx, data)
ParseValueCtx ==
  /\ call.fn = "ParseSerializedValue"
  /\ ~call.out_ctx.done
  /\ call' = [call EXCEPT !.out_ctx = ParseSerializedValueCtx(call.data, call.spare)]
  /\ UNCHANGED nodeVars

NextValue == ParseValue \/ ParseValueCtx

SpecValue == InitValue /\ [][NextValue]_vars

\* the input is all of MarshalBinary(value) followed by the tail
WholeInput == call.data = MarshalBinary(call.value) \o call.tail

\* the input ends before the types and data its header declares
ShortValue == Len(call.data) < Len(MarshalBinary(call.value))

\* what the claim expects of one result
Inverts(out, rest) ==
  out.done =>
    /\ WholeInput =>
         /\ ~out.panic /\ out.err = "nil"
         /\ out.value = call.value
         /\ out.rest = rest
    /\ ShortValue => ~out.panic /\ out.err # "nil"

\* C39: ParseSerializedValue of MarshalBinary(v) followed by a tail yields
\* the TypeStack and Data of v (and the tail where a remainder is
\* returned), and an input shorter than its header declares yields an error
C39_ParseInvertsMarshal ==
  /\ Inverts(call.out, call.tail)
  /\ Inverts(call.out_ctx, <<>>)

\* ------------------------------------------------------------------------
\* UpdateStates called from two goroutines

\* nodes of one call
MaxUpdated == 2

Goroutines == {"g1", "g2"}

\* the nodes the calls are given, in the order of the slice
NodeLists == SeqsOf({"p", "q", "r1"}, 1, MaxUpdated)

\* goroutine g is at the node.Lock() of the next node of its slice, and
\* the node's mutex is held by another goroutine
Blocked(g) ==
  /\ call.pc[g] = "lock"
  /\ \E h \in Goroutines \ {g} : call.nodes[g][call.at[g]] \in call.locked_nodes[h]

InitUpdate ==
  /\ NodesIdle
  /\ \E lists \in [Goroutines -> NodeLists] :
       call = [fn |-> "UpdateStates", nodes |-> lists,
               at |-> [g \in Goroutines |-> 1],
               locked_nodes |-> [g \in Goroutines |-> {}],
               pc |-> [g \in Goroutines |-> "lock"]]

\* UpdateMoreStates: one turn of the range loop, node.Lock() unless the
\* node is in locked_nodes already
LockNode(g) ==
  /\ call.fn = "UpdateStates"
  /\ call.pc[g] = "lock"
  /\ ~Blocked(g)
  /\ call' = [call EXCEPT !.locked_nodes[g] = @ \cup {call.nodes[g][call.at[g]]},
                          !.at[g] = @ + 1,
                          !.pc[g] = IF call.at[g] = Len(call.nodes[g]) THEN "fn" ELSE "lock"]
  /\ UNCHANGED nodeVars

\* nodes_fn(locked_nodes), then WriteNodes
NodesFn(g) ==
  /\ call.fn = "UpdateStates"
  /\ call.pc[g] = "fn"
  /\ call' = [call EXCEPT !.pc[g] = "unlock"]
  /\ UNCHANGED nodeVars

\* UpdateStates: node.Unlock() for every node of locked_nodes, and return
UnlockNodes(g) ==
  /\ call.fn = "UpdateStates"
  /\ call.pc[g] = "unlock"
  /\ call' = [call EXCEPT !.locked_nodes[g] = {}, !.pc[g] = "returned"]
  /\ UNCHANGED nodeVars

NextUpdate == \E g \in Goroutines : LockNode(g) \/ NodesFn(g) \/ UnlockNodes(g)

SpecUpdate == InitUpdate /\ [][NextUpdate]_vars

\* C40: two concurrent calls of UpdateStates never deadlock: while a call
\* has not returned some goroutine can go on, and when both have returned
\* no node lock is held
C40_UpdateStatesNoDeadlock ==
  /\ (\E g \in Goroutines : call.pc[g] # "returned") => \E g \in Goroutines : call.pc[g] # "returned" /\ ~Blocked(g)
  /\ (\A g \in Goroutines : call.pc[g] = "returned") => \A g \in Goroutines : call.locked_nodes[g] = {}

====
